---- MODULE Spec2Model ----
(***************************************************************************)
(* A model of the task-tracking bot: the per-user dialogue state machine   *)
(* (aiogram FSM state + data bag), the durable task store, and the         *)
(* pagination / search functions the handlers use.                         *)
(*                                                                         *)
(* A text is a sequence of one-character strings, so that split, strip,    *)
(* lower-casing and SQL LIKE matching are computed and not assumed.  The    *)
(* menu phrases the routers compare against are single symbols.            *)
(***************************************************************************)
EXTENDS Integers, Sequences, FiniteSets, TLC

VARIABLES
    fsm_state,   \* [Users -> state name]: FSMContext state of each user
    fsm_data,    \* [Users -> dict]: FSMContext data bag of each user
    users,       \* durable store, table users: set of User rows, one per id
    tasks,       \* durable store, table tasks: sequence of Task rows, id = index
    tags,        \* durable store, table tags: sequence of tag names, id = index
    event,       \* the inbound event being handled in the last step
    reply,       \* the responses the last step sent, in order
    calc,        \* inputs and results of the functions applied on their own
    temp,        \* the Redis keys of TempDatabaseManager: a set of entries
    now          \* the clock the Redis expiry times are compared with, in seconds

vars == <<fsm_state, fsm_data, users, tasks, tags, event, reply, calc, temp, now>>

-----------------------------------------------------------------------------
(* Bounds of the model *)

MaxItems == 7        \* longest item list handed to the pagination functions
MaxPageSize == 3     \* largest page size handed to the pagination functions
MaxPageIndex == 4    \* largest page index handed to paginate_tasks
MaxList == 2         \* longest accumulated tag / keyword list in a data bag
MaxPage == 2         \* largest stored page cursor
MaxTasks == 13       \* most rows of the tasks table

(* Program constants *)

PAGE_SIZE == 5       \* page_size in list_task_handler and _display_tasks

-----------------------------------------------------------------------------
(* Python helpers *)

Min(a, b) == IF a < b THEN a ELSE b
Max(a, b) == IF a > b THEN a ELSE b

\* s[start:end] for a Python list (negative indices count from the end).
PySlice(s, start, end) ==
    LET n  == Len(s)
        lo == IF start < 0 THEN Max(start + n, 0) ELSE Min(start, n)
        hi == IF end < 0 THEN Max(end + n, 0) ELSE Min(end, n)
    IN  IF lo >= hi THEN <<>> ELSE SubSeq(s, lo + 1, hi)

\* dict.get(key, default)
DictGet(d, k, default) == IF k \in DOMAIN d THEN d[k] ELSE default

EmptyDict == [k \in {} |-> 0]

\* FSMContext.set_data(data={k: v}): the bag is replaced
SetData(k, v) == [x \in {k} |-> v]

\* FSMContext.update_data(k=v): the bag is merged
UpdateData(d, k, v) == [x \in (DOMAIN d) \cup {k} |-> IF x = k THEN v ELSE d[x]]

-----------------------------------------------------------------------------
(* Texts *)

\* str.lower() on the alphabet of the model
LowerChar(c) == IF c = "A" THEN "a" ELSE IF c = "B" THEN "b" ELSE c

Lower(s) == [i \in 1..Len(s) |-> LowerChar(s[i])]

\* str.strip(): leading and trailing blanks removed
RECURSIVE LStrip(_)
LStrip(s) == IF s # <<>> /\ s[1] = " " THEN LStrip(Tail(s)) ELSE s

RECURSIVE RStrip(_)
RStrip(s) ==
    IF s # <<>> /\ s[Len(s)] = " " THEN RStrip(SubSeq(s, 1, Len(s) - 1)) ELSE s

Strip(s) == RStrip(LStrip(s))

\* str.split(','): the pieces between commas, empty pieces kept
RECURSIVE SplitFrom(_, _)
SplitFrom(s, piece) ==
    IF s = <<>> THEN <<piece>>
    ELSE IF s[1] = "," THEN <<piece>> \o SplitFrom(Tail(s), <<>>)
    ELSE SplitFrom(Tail(s), Append(piece, s[1]))

Split(s) == SplitFrom(s, <<>>)

HasComma(s) == \E i \in 1..Len(s) : s[i] = ","

\* SQL LIKE: "%" matches any run of characters, "_" any one character
RECURSIVE LikeMatch(_, _)
LikeMatch(p, s) ==
    IF p = <<>> THEN s = <<>>
    ELSE IF p[1] = "%" THEN
        \/ LikeMatch(Tail(p), s)
        \/ s # <<>> /\ LikeMatch(p, Tail(s))
    ELSE IF p[1] = "_" THEN s # <<>> /\ LikeMatch(Tail(p), Tail(s))
    ELSE s # <<>> /\ s[1] = p[1] /\ LikeMatch(Tail(p), Tail(s))

\* column.ilike(pattern): lower(column) LIKE lower(pattern)
ilike(column, pattern) == LikeMatch(Lower(pattern), Lower(column))

\* The menu phrases and commands the routers compare message.text with
TxtStart == <<"/start">>
TxtMainMenu == <<"main menu">>
TxtAddTask == <<"add task">>
TxtListTasks == <<"list tasks">>
TxtSearchTasks == <<"search tasks">>

-----------------------------------------------------------------------------
(* Pagination (tasks_utils.py) *)

get_total_pages_floor(items, page_size) == Len(items) \div page_size

get_total_pages_from_tasks_by_page_size(items, page_size) ==
    (Len(items) + page_size - 1) \div page_size

paginate_tasks_short(items, current_page, page_size) ==
    LET start == current_page * page_size
        end   == start + page_size - 1
    IN  PySlice(items, start, end)

paginate_tasks(items, current_page, page_size) ==
    LET start == current_page * page_size
        end   == start + page_size
    IN  PySlice(items, start, end)

-----------------------------------------------------------------------------
(* The durable store (database/database_manager.py, models.py) *)

\* A Task row: id, name, is_completed, user_id, and the ids of its tags
Task(id, name, user_id, tag_ids) ==
    [id |-> id, name |-> name, is_completed |-> FALSE, user_id |-> user_id,
     tags |-> tag_ids]

\* The ids of the rows a query returns
IdsOf(rows) == [i \in 1..Len(rows) |-> rows[i].id]

\* The tag names a task carries
TagNamesOf(task) == {tags[task.tags[i]] : i \in 1..Len(task.tags)}

\* A User row
User(id, name, phone) == [id |-> id, name |-> name, phone |-> phone]

\* get_user_by_id(user_id) is not None
get_user_by_id(user_id) == \E row \in users : row.id = user_id

\* The row get_user_by_id returns
user_row(user_id) == CHOOSE row \in users : row.id = user_id

\* add_user: the table after the call; a second row with the same id raises
\* IntegrityError and is rolled back
add_user(user_id, name, phone) ==
    IF get_user_by_id(user_id) THEN users ELSE users \cup {User(user_id, name, phone)}

get_not_completed_tasks_all(tks, user_id) ==
    LET keep(t) == t.user_id = user_id
    IN  IdsOf(SelectSeq(tks, keep))

\* The ids of the user's tasks with is_completed == False in table tks, in id order
get_not_completed_tasks_by_user_id(tks, user_id) ==
    LET keep(t) == t.user_id = user_id /\ t.is_completed = FALSE
    IN  IdsOf(SelectSeq(tks, keep))

\* mark_task_completed that toggles the flag
mark_task_toggled(task_id) ==
    IF task_id \in 1..Len(tasks)
    THEN [tasks EXCEPT ![task_id].is_completed = ~tasks[task_id].is_completed]
    ELSE tasks

\* mark_task_completed: the table after the call (any owner's task)
mark_task_completed(task_id) ==
    IF task_id \in 1..Len(tasks)
    THEN [tasks EXCEPT ![task_id].is_completed = TRUE]
    ELSE tasks

\* search_tasks raises ValueError
search_tasks_raises(query, tag_names) == query = <<>> /\ tag_names = <<>>

SearchCondition(t, query, tag_names) ==
    \/ \E i \in 1..Len(query) : ilike(t.name, <<"%">> \o query[i] \o <<"%">>)
    \/ /\ tag_names # <<>>
       /\ \E i \in 1..Len(tag_names) : tag_names[i] \in TagNamesOf(t)

search_tasks_and(user_id, query, tag_names) ==
    LET keep(t) ==
            /\ t.user_id = user_id
            /\ (query # <<>> =>
                  \E i \in 1..Len(query) : ilike(t.name, <<"%">> \o query[i] \o <<"%">>))
            /\ (tag_names # <<>> =>
                  \E i \in 1..Len(tag_names) : tag_names[i] \in TagNamesOf(t))
    IN  IdsOf(SelectSeq(tasks, keep))

\* search_tasks: the ids of the matching tasks, in id order
search_tasks(user_id, query, tag_names) ==
    LET keep(t) == t.user_id = user_id /\ SearchCondition(t, query, tag_names)
    IN  IdsOf(SelectSeq(tasks, keep))

\* All orders in which the rows of a set of new names can be inserted
OrdersOf(S) ==
    {s \in [1..Cardinality(S) -> S] : {s[i] : i \in 1..Cardinality(S)} = S}

\* add_task that inserts a Tag row for every requested tag, existing or not
add_task_no_reuse(user_id, name, tag_names, new_order, committed) ==
    [tasks |-> Append(tasks, Task(Len(tasks) + 1, name, user_id,
                                  [j \in 1..Len(tag_names) |-> Len(tags) + j])),
     tags |-> tags \o tag_names]

\* add_task that attaches no tag to the task
add_task_untagged(user_id, name, tag_names, new_order, committed) ==
    [tasks |-> Append(tasks, Task(Len(tasks) + 1, name, user_id, <<>>)),
     tags |-> tags \o new_order]

\* add_task: the tables [tasks, tags] after the call, the new Tag rows
\* inserted in the order new_order (the iteration order of a Python set) and
\* committed on their own; then the Task row is committed, or the commit raises
\* IntegrityError and only the Task row is rolled back
add_task(user_id, name, tag_names, new_order, committed) ==
    IF ~get_user_by_id(user_id) THEN [tasks |-> tasks, tags |-> tags]
    ELSE IF ~committed THEN [tasks |-> tasks, tags |-> tags \o new_order]
    ELSE
        LET existing_ids == IF tag_names = <<>> THEN <<>>
                            ELSE LET ids == SelectSeq([i \in 1..Len(tags) |-> i],
                                        LAMBDA i : \E j \in 1..Len(tag_names) :
                                                       tags[i] = tag_names[j])
                                 IN  ids
            new_ids == [i \in 1..Len(new_order) |-> Len(tags) + i]
            new_task == Task(Len(tasks) + 1, name, user_id, existing_ids \o new_ids)
        IN  [tasks |-> Append(tasks, new_task), tags |-> tags \o new_order]

\* set(tags) - {names of the existing Tag rows}
new_tag_names(tag_names) ==
    {tag_names[j] : j \in 1..Len(tag_names)} \ {tags[i] : i \in 1..Len(tags)}

-----------------------------------------------------------------------------
(* Events and responses *)

NoEvent == [user |-> 0, kind |-> "none", text |-> <<>>, data |-> "", task_id |-> 0]

TextEvent(u, t) ==
    [user |-> u, kind |-> "text", text |-> t, data |-> "", task_id |-> 0]

ActionEvent(u, d, id) ==
    [user |-> u, kind |-> "action", text |-> <<>>, data |-> d, task_id |-> id]

\* A plain answer
Msg(m) == [msg |-> m, page |-> 0, total |-> 0, items |-> <<>>, edit |-> FALSE,
           nav |-> <<>>]

\* A rendered page: the task ids shown, the label page+1/total, whether the
\* previous message is edited, and the callback data of the arrows (left, right)
PageMsg(items, page, total, edit, nav) ==
    [msg |-> "tasks", page |-> page, total |-> total, items |-> items,
     edit |-> edit, nav |-> nav]

-----------------------------------------------------------------------------
(* Handlers.  Each action is one handler run to completion on one event.   *)

\* What a handler leaves in the FSM storage and sends
Handled(u, ev, st, data, rep) ==
    /\ event' = ev
    /\ fsm_state' = [fsm_state EXCEPT ![u] = st]
    /\ fsm_data' = [fsm_data EXCEPT ![u] = data]
    /\ reply' = rep
    /\ UNCHANGED <<calc, temp, now>>

StoreUnchanged == UNCHANGED <<users, tasks, tags>>

\* start_router: Command('start') or the main-menu phrase, in any state
IsStart(t) == t = TxtStart \/ t = TxtMainMenu

(* basic_handlers/start_handler.py *)

\* cmd_start without state.clear()
cmd_start_keep(u, t) ==
    /\ IsStart(t)
    /\ Handled(u, TextEvent(u, t),
               IF get_user_by_id(u) THEN "start_menu" ELSE "awaiting_name",
               fsm_data[u], <<Msg("welcome")>>)
    /\ UNCHANGED <<users, tasks, tags>>

cmd_start(u, t) ==
    /\ IsStart(t)
    /\ IF get_user_by_id(u)
       THEN Handled(u, TextEvent(u, t), "start_menu", EmptyDict, <<Msg("welcome")>>)
       ELSE Handled(u, TextEvent(u, t), "awaiting_name", EmptyDict,
                    <<Msg("ask_name")>>)
    /\ StoreUnchanged

(* registration_handler/registration_handlers.py *)

Digits == {"0", "1", "2", "3", "4", "5", "6", "7", "8", "9"}

\* [\s\-]
Separators == {" ", "\t", "\n", "-"}

\* The positions a regular expression can be at after one character of the
\* class, from the positions at
ReChar(at, s, class) == {i + 1 : i \in {j \in at : j <= Len(s) /\ s[j] \in class}}

\* The same for an optional character
ReOpt(at, s, class) == at \cup ReChar(at, s, class)

\* _is_valid_phone: re.match of
\* ^(\+7|7|8)?[\s\-]?\(?[489][0-9]{2}\)?[\s\-]?[0-9]{3}[\s\-]?[0-9]{2}[\s\-]?[0-9]{2}$
is_valid_phone_digits_only(phone) ==
    phone # <<>> /\ \A i \in 1..Len(phone) : phone[i] \in Digits

is_valid_phone(phone) ==
    LET p0 == {1}
        p1 == p0 \cup ReChar(ReChar(p0, phone, {"+"}), phone, {"7"})
                 \cup ReChar(p0, phone, {"7", "8"})
        p2 == ReOpt(ReOpt(p1, phone, Separators), phone, {"("})
        p3 == ReChar(ReChar(ReChar(p2, phone, {"4", "8", "9"}), phone, Digits),
                     phone, Digits)
        p4 == ReOpt(ReOpt(p3, phone, {")"}), phone, Separators)
        p5 == ReChar(ReChar(ReChar(p4, phone, Digits), phone, Digits), phone, Digits)
        p6 == ReOpt(p5, phone, Separators)
        p7 == ReChar(ReChar(p6, phone, Digits), phone, Digits)
        p8 == ReOpt(p7, phone, Separators)
        p9 == ReChar(ReChar(p8, phone, Digits), phone, Digits)
    IN  \/ Len(phone) + 1 \in p9
        \/ phone # <<>> /\ phone[Len(phone)] = "\n" /\ Len(phone) \in p9

\* The confirmation sent after a registration: the name and phone of the row
RegisteredMsg(row) ==
    [msg |-> "registration_successful", name |-> row.name, phone |-> row.phone]

\* _clean_state: update_data(name="", phone="")
reg_clean_state(data) == UpdateData(UpdateData(data, "name", <<>>), "phone", <<>>)

reg_handle_name(u, t) ==
    /\ ~IsStart(t)
    /\ fsm_state[u] = "awaiting_name"
    /\ IF t = <<>>
       THEN Handled(u, TextEvent(u, t), fsm_state[u], fsm_data[u],
                    <<Msg("name_empty")>>)
       ELSE Handled(u, TextEvent(u, t), "awaiting_phone",
                    UpdateData(fsm_data[u], "name", t), <<Msg("ask_phone")>>)
    /\ StoreUnchanged

\* _complete_registration, after add_user: the state and the response
complete_registration(u, t, data, table) ==
    /\ users' = table
    /\ UNCHANGED <<tasks, tags>>
    /\ IF \E row \in table : row.id = u
       THEN Handled(u, TextEvent(u, t), "start_menu", reg_clean_state(data),
                    <<RegisteredMsg(CHOOSE row \in table : row.id = u)>>)
       ELSE Handled(u, TextEvent(u, t), "awaiting_name", reg_clean_state(data),
                    <<Msg("registration_failed")>>)

handle_phone(u, t) ==
    /\ ~IsStart(t)
    /\ fsm_state[u] = "awaiting_phone"
    /\ IF t = <<>>
       THEN /\ Handled(u, TextEvent(u, t), fsm_state[u], fsm_data[u],
                       <<Msg("phone_empty")>>)
            /\ StoreUnchanged
       ELSE IF ~is_valid_phone(t)
       THEN /\ Handled(u, TextEvent(u, t), fsm_state[u], fsm_data[u],
                       <<Msg("phone_invalid")>>)
            /\ StoreUnchanged
       ELSE LET data == UpdateData(fsm_data[u], "phone", t)
                user_name == DictGet(data, "username", <<>>)
            IN  complete_registration(u, t, data, add_user(u, user_name, t))

(* basic_handlers/default_handler.py *)

\* No handler of an earlier router takes this message in this state
Unmatched(st, t) ==
    /\ ~IsStart(t)
    /\ \/ st \in {"none", "listing_tasks"}
       \/ st = "start_menu" /\ t \notin {TxtAddTask, TxtListTasks, TxtSearchTasks}

\* handle_all_other_messages without state.clear()
handle_all_other_messages_keep(u, t) ==
    /\ Unmatched(fsm_state[u], t)
    /\ Handled(u, TextEvent(u, t), fsm_state[u], fsm_data[u],
               <<Msg("not_understood")>>)
    /\ UNCHANGED <<users, tasks, tags>>

handle_all_other_messages(u, t) ==
    /\ Unmatched(fsm_state[u], t)
    /\ Handled(u, TextEvent(u, t), "none", EmptyDict, <<Msg("not_understood")>>)
    /\ StoreUnchanged

(* tasks_handlers/add_task_handler.py *)

add_task_handler(u, t) ==
    /\ ~IsStart(t)
    /\ fsm_state[u] = "start_menu"
    /\ t = TxtAddTask
    /\ Handled(u, TextEvent(u, t), "waiting_name", fsm_data[u], <<Msg("ask_task_name")>>)
    /\ StoreUnchanged

\* _clean_state: two set_data calls, the second replaces the first
add_clean_state_keep(data) == data

add_clean_state(data) == SetData("tags", <<>>)

add_handle_name(u, t) ==
    /\ ~IsStart(t)
    /\ fsm_state[u] = "waiting_name"
    /\ IF t = <<>>
       THEN Handled(u, TextEvent(u, t), fsm_state[u], fsm_data[u],
                    <<Msg("task_name_empty")>>)
       ELSE Handled(u, TextEvent(u, t), "waiting_tags",
                    UpdateData(add_clean_state(fsm_data[u]), "task_name", t),
                    <<Msg("ask_tags")>>)
    /\ StoreUnchanged

\* existed_tags.append(tag)
append_tag_unique(existed_tags, tag) ==
    IF \E i \in 1..Len(existed_tags) : existed_tags[i] = tag
    THEN existed_tags ELSE Append(existed_tags, tag)

append_tag(existed_tags, tag) == Append(existed_tags, tag)

\* handle_tags that inserts the Tag row as soon as the tag is typed
add_handle_tags_eager(u, t) ==
    /\ ~IsStart(t)
    /\ fsm_state[u] = "waiting_tags"
    /\ t # <<>>
    /\ Len(DictGet(fsm_data[u], "tags", <<>>)) < MaxList
    /\ Handled(u, TextEvent(u, t), fsm_state[u],
               UpdateData(fsm_data[u], "tags",
                          append_tag(DictGet(fsm_data[u], "tags", <<>>), t)),
               <<Msg("tag_added")>>)
    /\ tags' = tags \o (CHOOSE s \in OrdersOf(new_tag_names(<<t>>)) : TRUE)
    /\ UNCHANGED <<users, tasks>>

add_handle_tags(u, t) ==
    /\ ~IsStart(t)
    /\ fsm_state[u] = "waiting_tags"
    /\ LET existed_tags == DictGet(fsm_data[u], "tags", <<>>)
       IN  IF t = <<>>
           THEN Handled(u, TextEvent(u, t), fsm_state[u], fsm_data[u],
                        <<Msg("tag_empty")>>)
           ELSE /\ Len(existed_tags) < MaxList
                /\ Handled(u, TextEvent(u, t), fsm_state[u],
                           UpdateData(fsm_data[u], "tags", append_tag(existed_tags, t)),
                           <<Msg("tag_added")>>)
    /\ StoreUnchanged

\* end_tags_callback: `if not task_name`, for a missing or empty name
no_task_name_never(task_name) == FALSE

no_task_name(task_name) == task_name = <<>>

end_tags_callback(u) ==
    LET task_name == DictGet(fsm_data[u], "task_name", <<>>)
        tag_names == DictGet(fsm_data[u], "tags", <<>>)
    IN  IF no_task_name(task_name)
        THEN /\ Handled(u, ActionEvent(u, "end_tags", 0), fsm_state[u], fsm_data[u],
                        <<Msg("task_name_not_found")>>)
             /\ StoreUnchanged
        ELSE /\ Len(tasks) < MaxTasks
             /\ \E new_order \in OrdersOf(new_tag_names(tag_names)),
                   committed \in BOOLEAN :
                   LET db == add_task(u, task_name, tag_names, new_order, committed)
                   IN  /\ tasks' = db.tasks
                       /\ tags' = db.tags
             /\ UNCHANGED users
             /\ Handled(u, ActionEvent(u, "end_tags", 0), "start_menu",
                        add_clean_state(fsm_data[u]), <<Msg("task_added")>>)

(* tasks_handlers/list_tasks_handler.py *)

\* next_page_handler: the page stored before the listing is rendered
next_page_index_nowrap(current_page, last_page) == current_page + 1

next_page_index(current_page, last_page) ==
    IF current_page = last_page THEN 0 ELSE current_page + 1

\* prev_page_handler: the page stored before the listing is rendered
prev_page_index(current_page, last_page) ==
    IF current_page = 0 THEN last_page ELSE current_page - 1

ListNav == <<"prev_page", "next_page">>

\* list_task_handler: the data bag it leaves and the response it sends, reading
\* the tasks table tks
list_task_result(u, data, edit, tks) ==
    LET open == get_not_completed_tasks_by_user_id(tks, u)
    IN  IF open = <<>> THEN [data |-> data, reply |-> <<Msg("no_tasks")>>]
        ELSE
            LET current_page == DictGet(data, "page", 0)
                total_pages == get_total_pages_from_tasks_by_page_size(open, PAGE_SIZE)
                d1 == IF "last_page" \notin DOMAIN data
                      THEN UpdateData(data, "last_page", total_pages - 1)
                      ELSE data
                tasks_for_page == paginate_tasks(open, current_page, PAGE_SIZE)
            IN  [data |-> UpdateData(d1, "page", current_page),
                 reply |-> <<PageMsg(tasks_for_page, current_page, total_pages,
                                     edit, ListNav)>>]

list_task_handler(u, t) ==
    /\ ~IsStart(t)
    /\ fsm_state[u] = "start_menu"
    /\ t = TxtListTasks
    /\ LET r == list_task_result(u, fsm_data[u], FALSE, tasks)
       IN  Handled(u, TextEvent(u, t), fsm_state[u], r.data, r.reply)
    /\ StoreUnchanged

task_is_completed_handler(u, task_id) ==
    /\ tasks' = mark_task_completed(task_id)
    /\ UNCHANGED <<users, tags>>
    /\ LET r == list_task_result(u, fsm_data[u], TRUE, mark_task_completed(task_id))
       IN  Handled(u, ActionEvent(u, "task_is_completed", task_id), fsm_state[u],
                   r.data, <<Msg("task_marked_completed")>> \o r.reply)

next_page_handler(u) ==
    /\ LET current_page == DictGet(fsm_data[u], "page", 0)
           last_page == DictGet(fsm_data[u], "last_page", 0)
           page == next_page_index(current_page, last_page)
           r == list_task_result(u, UpdateData(fsm_data[u], "page", page), TRUE, tasks)
       IN  /\ page <= MaxPage
           /\ Handled(u, ActionEvent(u, "next_page", 0), fsm_state[u], r.data, r.reply)
    /\ StoreUnchanged

prev_page_handler(u) ==
    /\ LET current_page == DictGet(fsm_data[u], "page", 0)
           last_page == DictGet(fsm_data[u], "last_page", 0)
           page == prev_page_index(current_page, last_page)
           r == list_task_result(u, UpdateData(fsm_data[u], "page", page), TRUE, tasks)
       IN  Handled(u, ActionEvent(u, "prev_page", 0), fsm_state[u], r.data, r.reply)
    /\ StoreUnchanged

(* tasks_handlers/search_task_handler.py *)

search_task_handler(u, t) ==
    /\ ~IsStart(t)
    /\ fsm_state[u] = "start_menu"
    /\ t = TxtSearchTasks
    /\ Handled(u, TextEvent(u, t), "waiting_for_query", fsm_data[u],
               <<Msg("ask_keywords")>>)
    /\ StoreUnchanged

\* The message taken as one token, commas and all
tokens_of_whole(t) == <<Strip(t)>>

\* The tokens of one message: split on commas when there is one, each stripped
tokens_of(t) ==
    IF HasComma(t)
    THEN LET words == Split(t) IN [i \in 1..Len(words) |-> Strip(words[i])]
    ELSE <<Strip(t)>>

handle_query(u, t) ==
    /\ ~IsStart(t)
    /\ fsm_state[u] = "waiting_for_query"
    /\ LET existing_keywords == DictGet(fsm_data[u], "keywords", <<>>)
           keywords == existing_keywords \o tokens_of(t)
       IN  IF t = <<>>
           THEN Handled(u, TextEvent(u, t), fsm_state[u], fsm_data[u],
                        <<Msg("keywords_empty")>>)
           ELSE /\ Len(keywords) <= MaxList
                /\ Handled(u, TextEvent(u, t), fsm_state[u],
                           UpdateData(fsm_data[u], "keywords", keywords),
                           <<Msg("keywords_added")>>)
    /\ StoreUnchanged

search_handle_tags(u, t) ==
    /\ ~IsStart(t)
    /\ fsm_state[u] = "waiting_for_tags"
    /\ LET existing_tags == DictGet(fsm_data[u], "tags", <<>>)
           tag_names == existing_tags \o tokens_of(t)
       IN  IF t = <<>>
           THEN Handled(u, TextEvent(u, t), fsm_state[u], fsm_data[u],
                        <<Msg("tags_empty")>>)
           ELSE /\ Len(tag_names) <= MaxList
                /\ Handled(u, TextEvent(u, t), fsm_state[u],
                           UpdateData(fsm_data[u], "tags", tag_names),
                           <<Msg("tags_added")>>)
    /\ StoreUnchanged

search_tags_button_handler(u) ==
    /\ Handled(u, ActionEvent(u, "search_tags", 0), "waiting_for_tags", fsm_data[u],
               <<Msg("ask_search_tags")>>)
    /\ StoreUnchanged

search_query_button_handler(u) ==
    /\ Handled(u, ActionEvent(u, "search_query", 0), "waiting_for_query", fsm_data[u],
               <<Msg("ask_search_tags")>>)
    /\ StoreUnchanged

\* _get_search_criteria: the criteria pair used and the data bag left
get_search_criteria(data) ==
    LET keywords == DictGet(data, "keywords", <<>>)
        tag_names == DictGet(data, "tags", <<>>)
    IN  IF keywords # <<>> \/ tag_names # <<>>
        THEN [criteria |-> <<keywords, tag_names>>,
              data |-> UpdateData(SetData("tags", <<>>), "keywords_and_tags",
                                  <<keywords, tag_names>>)]
        ELSE [criteria |-> DictGet(data, "keywords_and_tags", << <<>>, <<>> >>),
              data |-> data]

\* The arrows of the search listing: the callback data under "<-" and "->"
SearchNav == <<"next_page_search", "prev_page_search">>

\* _display_tasks: the state, the data bag and the response it leaves
display_tasks_stay(data, found, called_after_search) ==
    LET current_page == DictGet(data, "page_search_list", 0)
        total_pages == get_total_pages_from_tasks_by_page_size(found, PAGE_SIZE)
        d1 == IF "last_page_search_list" \notin DOMAIN data
              THEN UpdateData(data, "last_page_search_list", total_pages - 1)
              ELSE data
    IN  [state |-> "listing_tasks",
         data |-> UpdateData(d1, "page", current_page),
         reply |-> <<PageMsg(paginate_tasks(found, current_page, PAGE_SIZE),
                             current_page, total_pages, ~called_after_search,
                             IF total_pages = 1 THEN <<>> ELSE SearchNav)>>]

display_tasks(data, found, called_after_search) ==
    LET current_page == DictGet(data, "page_search_list", 0)
        total_pages == get_total_pages_from_tasks_by_page_size(found, PAGE_SIZE)
        last_page == total_pages - 1
        d1 == IF "last_page_search_list" \notin DOMAIN data
              THEN UpdateData(data, "last_page_search_list", last_page)
              ELSE data
        tasks_for_page == paginate_tasks(found, current_page, PAGE_SIZE)
        is_single_page == total_pages = 1
    IN  [state |-> "start_menu",
         data |-> UpdateData(d1, "page", current_page),
         reply |-> <<PageMsg(tasks_for_page, current_page, total_pages,
                             ~called_after_search,
                             IF is_single_page THEN <<>> ELSE SearchNav)>>]

\* _handle_no_tasks_found
handle_no_tasks_found_stay ==
    [state |-> "listing_tasks", data |-> EmptyDict,
     reply |-> <<Msg("nothing_found")>>]

handle_no_tasks_found ==
    [state |-> "start_menu", data |-> EmptyDict,
     reply |-> <<Msg("nothing_found")>>]

\* _search_tasks_or_handle_error, the ValueError branch
handle_invalid_query ==
    [state |-> "start_menu", data |-> EmptyDict,
     reply |-> <<Msg("keywords_and_tags_both_empty")>>]

\* _handle_list_tasks: the state, the data bag and the response it leaves
handle_list_tasks(u, data, called_after_search) ==
    LET c == get_search_criteria(data)
        keywords == c.criteria[1]
        tag_names == c.criteria[2]
    IN  IF search_tasks_raises(keywords, tag_names) THEN handle_invalid_query
        ELSE LET found == search_tasks(u, keywords, tag_names)
             IN  IF found = <<>> THEN handle_no_tasks_found
                 ELSE display_tasks(c.data, found, called_after_search)

end_search_button_handler(u) ==
    /\ LET r == handle_list_tasks(u, fsm_data[u], TRUE)
       IN  Handled(u, ActionEvent(u, "end_search", 0), r.state, r.data,
                   <<Msg("search_finished")>> \o r.reply)
    /\ StoreUnchanged

end_task_list_keep(u) ==
    /\ Handled(u, ActionEvent(u, "end_task_list", 0), "start_menu", fsm_data[u],
               <<Msg("listing_finished")>>)
    /\ StoreUnchanged

end_task_list_button_handler(u) ==
    /\ Handled(u, ActionEvent(u, "end_task_list", 0), "start_menu", EmptyDict,
               <<Msg("listing_finished")>>)
    /\ StoreUnchanged

next_page_button_handler(u) ==
    /\ LET current_page == DictGet(fsm_data[u], "page_search_list", 0)
           last_page == DictGet(fsm_data[u], "last_page_search_list", 0)
           page == next_page_index(current_page, last_page)
           r == handle_list_tasks(u, UpdateData(fsm_data[u], "page_search_list", page),
                                  FALSE)
       IN  /\ page <= MaxPage
           /\ Handled(u, ActionEvent(u, "next_page_search", 0), r.state, r.data, r.reply)
    /\ StoreUnchanged

prev_page_button_handler(u) ==
    /\ LET current_page == DictGet(fsm_data[u], "page_search_list", 0)
           last_page == DictGet(fsm_data[u], "last_page_search_list", 0)
           page == prev_page_index(current_page, last_page)
           r == handle_list_tasks(u, UpdateData(fsm_data[u], "page_search_list", page),
                                  FALSE)
       IN  Handled(u, ActionEvent(u, "prev_page_search", 0), r.state, r.data, r.reply)
    /\ StoreUnchanged

-----------------------------------------------------------------------------
(* Initial states *)

\* The users whose events are handled
Users == {1}

\* The registered users
Registered == {1, 2}

\* A phone number the registration accepts, and one it rejects
TxtPhone == <<"+", "7", "9", "9", "9", "1", "2", "3", "4", "5", "6", "7">>
TxtBadPhone == <<"1", "2", "3", "4", "5">>

\* Another registered user, who owns rows of the store
OtherUser == CHOOSE u \in Registered : u \notin Users

TxtA == <<"a">>
TxtB == <<"b">>
TxtC == <<"c">>
TxtAb == <<"A", "b">>

\* The texts of inbound messages: free text typed into a dialogue (one of them
\* empty: a message without text), the menu phrases, and the texts typed into
\* a search on its own (one of them in no task name and no tag name)
FreeTexts == {<<>>, TxtA}
QueryTexts == FreeTexts \cup {TxtC}
MenuTexts == {TxtStart, TxtAddTask, TxtListTasks, TxtSearchTasks}
Texts == FreeTexts \cup MenuTexts

\* A store left by earlier dialogues, where user 1 owns n open tasks: the first
\* six with "a" in the name (the first in capitals), the seventh to eleventh
\* named "b" and tagged "a"; the row after them is a task of the other user
StoreTags == <<TxtA, TxtB>>

StoreTasks(n) ==
    [i \in 1..(n + 1) |->
        IF i = n + 1 THEN Task(i, TxtA, OtherUser, <<1>>)
        ELSE IF i = 1 THEN Task(i, TxtAb, 1, <<2>>)
        ELSE IF i <= 6 THEN Task(i, TxtA, 1, <<>>)
        ELSE IF i <= 11 THEN Task(i, TxtB, 1, <<1>>)
        ELSE Task(i, TxtB, 1, <<>>)]

\* The numbers of tasks user 1 may own at the start
StoreCounts == {0, 1, 5, 6, 10, 11, 12}

\* The store the dialogues below start from: three pages, one task on the last
StartCount == 2 * PAGE_SIZE + 1

\* The task ids a mark-completed button press may carry: the task on user 1's
\* last page, the task of the other user, no task
CompletableIds == {StartCount, StartCount + 1, 99}

\* No pure function has been applied
CalcIdle == [op |-> "none"]

InitSession ==
    /\ fsm_state = [u \in Users |-> "none"]
    /\ fsm_data = [u \in Users |-> EmptyDict]
    /\ event = NoEvent
    /\ reply = <<>>
    /\ calc = CalcIdle
    /\ temp = {}
    /\ now = 0

Init ==
    /\ InitSession
    /\ users = {User(id, <<"a">>, TxtPhone) : id \in Registered}
    /\ tasks = StoreTasks(StartCount)
    /\ tags = StoreTags

Next ==
    \/ \E u \in Users, t \in MenuTexts : cmd_start(u, t)
    \/ \E u \in Users, t \in Texts : handle_all_other_messages(u, t)
    \/ \E u \in Users, t \in MenuTexts : add_task_handler(u, t)
    \/ \E u \in Users, t \in FreeTexts : add_handle_name(u, t)
    \/ \E u \in Users, t \in FreeTexts : add_handle_tags(u, t)
    \/ \E u \in Users : end_tags_callback(u)
    \/ \E u \in Users, t \in MenuTexts : list_task_handler(u, t)
    \/ \E u \in Users, id \in CompletableIds : task_is_completed_handler(u, id)
    \/ \E u \in Users : next_page_handler(u)
    \/ \E u \in Users : prev_page_handler(u)
    \/ \E u \in Users, t \in MenuTexts : search_task_handler(u, t)
    \/ \E u \in Users, t \in FreeTexts : handle_query(u, t)
    \/ \E u \in Users, t \in FreeTexts : search_handle_tags(u, t)
    \/ \E u \in Users : search_tags_button_handler(u)
    \/ \E u \in Users : search_query_button_handler(u)
    \/ \E u \in Users : end_search_button_handler(u)
    \/ \E u \in Users : end_task_list_button_handler(u)
    \/ \E u \in Users : next_page_button_handler(u)
    \/ \E u \in Users : prev_page_button_handler(u)

Spec == Init /\ [][Next]_vars

\* The listing and search dialogues over a task set that does not change: every
\* handler but the two that write to the store
InitFixed ==
    /\ InitSession
    /\ users = {User(id, <<"a">>, TxtPhone) : id \in Registered}
    /\ \E n \in StoreCounts : tasks = StoreTasks(n)
    /\ tags = StoreTags

NextFixed ==
    \/ \E u \in Users, t \in MenuTexts : cmd_start(u, t)
    \/ \E u \in Users, t \in Texts : handle_all_other_messages(u, t)
    \/ \E u \in Users, t \in MenuTexts : add_task_handler(u, t)
    \/ \E u \in Users, t \in FreeTexts : add_handle_name(u, t)
    \/ \E u \in Users, t \in FreeTexts : add_handle_tags(u, t)
    \/ \E u \in Users, t \in MenuTexts : list_task_handler(u, t)
    \/ \E u \in Users : next_page_handler(u)
    \/ \E u \in Users : prev_page_handler(u)
    \/ \E u \in Users, t \in MenuTexts : search_task_handler(u, t)
    \/ \E u \in Users, t \in FreeTexts : handle_query(u, t)
    \/ \E u \in Users, t \in FreeTexts : search_handle_tags(u, t)
    \/ \E u \in Users : search_tags_button_handler(u)
    \/ \E u \in Users : search_query_button_handler(u)
    \/ \E u \in Users : end_search_button_handler(u)
    \/ \E u \in Users : end_task_list_button_handler(u)
    \/ \E u \in Users : next_page_button_handler(u)
    \/ \E u \in Users : prev_page_button_handler(u)

SpecFixed == InitFixed /\ [][NextFixed]_vars

\* The search dialogue on its own, with keywords and tag names that match nothing
NextSearch ==
    \/ \E u \in Users, t \in MenuTexts : cmd_start(u, t)
    \/ \E u \in Users, t \in MenuTexts : search_task_handler(u, t)
    \/ \E u \in Users, t \in QueryTexts : handle_query(u, t)
    \/ \E u \in Users, t \in QueryTexts : search_handle_tags(u, t)
    \/ \E u \in Users : search_tags_button_handler(u)
    \/ \E u \in Users : search_query_button_handler(u)
    \/ \E u \in Users : end_search_button_handler(u)
    \/ \E u \in Users : end_task_list_button_handler(u)
    \/ \E u \in Users : next_page_button_handler(u)
    \/ \E u \in Users : prev_page_button_handler(u)

SpecSearch == Init /\ [][NextSearch]_vars

\* The Add-Task dialogue on its own, with a tag name that no Tag row has yet,
\* from a store with room for two more tasks
InitAdd ==
    /\ InitSession
    /\ users = {User(id, <<"a">>, TxtPhone) : id \in Registered}
    /\ tasks = StoreTasks(StartCount - 1)
    /\ tags = StoreTags

NextAdd ==
    \/ \E u \in Users, t \in MenuTexts : cmd_start(u, t)
    \/ \E u \in Users, t \in MenuTexts : add_task_handler(u, t)
    \/ \E u \in Users, t \in FreeTexts : add_handle_name(u, t)
    \/ \E u \in Users, t \in QueryTexts : add_handle_tags(u, t)
    \/ \E u \in Users : end_tags_callback(u)

SpecAdd == InitAdd /\ [][NextAdd]_vars

\* The registration dialogue of users who have no User row at the start
Newcomers == {3, 4}

\* The texts typed into the registration: none, a name, a phone number, and a
\* number the pattern rejects
RegTexts == {<<>>, TxtA, TxtPhone, TxtBadPhone}

InitReg ==
    /\ fsm_state = [u \in Newcomers |-> "none"]
    /\ fsm_data = [u \in Newcomers |-> EmptyDict]
    /\ event = NoEvent
    /\ reply = <<>>
    /\ calc = CalcIdle
    /\ temp = {}
    /\ now = 0
    /\ users = {User(id, <<"a">>, TxtPhone) : id \in Registered}
    /\ tasks = <<>>
    /\ tags = <<>>

\* The two texts the start router takes
StartTexts == {TxtStart, TxtMainMenu}

NextReg ==
    \/ \E u \in Newcomers, t \in StartTexts : cmd_start(u, t)
    \/ \E u \in Newcomers, t \in RegTexts : reg_handle_name(u, t)
    \/ \E u \in Newcomers, t \in RegTexts : handle_phone(u, t)
    \/ \E u \in Newcomers, t \in RegTexts : handle_all_other_messages(u, t)

SpecReg == InitReg /\ [][NextReg]_vars

\* The three input dialogues of users who arrive unregistered: registration,
\* then the text handlers of Add-Task and Search and the two Search mode buttons
NextInput ==
    \/ NextReg
    \/ \E u \in Newcomers, t \in MenuTexts : add_task_handler(u, t)
    \/ \E u \in Newcomers, t \in FreeTexts : add_handle_name(u, t)
    \/ \E u \in Newcomers, t \in FreeTexts : add_handle_tags(u, t)
    \/ \E u \in Newcomers, t \in MenuTexts : search_task_handler(u, t)
    \/ \E u \in Newcomers, t \in FreeTexts : handle_query(u, t)
    \/ \E u \in Newcomers, t \in FreeTexts : search_handle_tags(u, t)
    \/ \E u \in Newcomers : search_tags_button_handler(u)
    \/ \E u \in Newcomers : search_query_button_handler(u)

SpecInput == InitReg /\ [][NextInput]_vars

\* A second phone number the registration accepts
TxtPhone8 == <<"8", "9", "9", "9", "1", "2", "3", "4", "5", "6", "7">>

\* handle_phone completing the registration of user u under another FSM key (the
\* storage keeps one state and bag per chat and user): of that run this chat's
\* session sees only the User row
handle_phone_in_other_chat(u, t) ==
    /\ is_valid_phone(t)
    /\ ~get_user_by_id(u)
    /\ users' = add_user(u, <<>>, t)
    /\ UNCHANGED <<tasks, tags, fsm_state, fsm_data, calc, temp, now>>
    /\ event' = NoEvent
    /\ reply' = <<>>

\* Registration of users who may complete it in another chat meanwhile
NextRereg ==
    \/ \E u \in Newcomers, t \in StartTexts : cmd_start(u, t)
    \/ \E u \in Newcomers, t \in RegTexts \cup {TxtPhone8} : reg_handle_name(u, t)
    \/ \E u \in Newcomers, t \in RegTexts \cup {TxtPhone8} : handle_phone(u, t)
    \/ \E u \in Newcomers, t \in {TxtPhone} : handle_phone_in_other_chat(u, t)

SpecRereg == InitReg /\ [][NextRereg]_vars

-----------------------------------------------------------------------------
(* temp_database_manager.py: the ephemeral session store, and the            *)
(* registration module that keeps the name and the phone in it              *)
(* (handlers/registration_handlers.py, handlers/start_handler.py)           *)

\* self._ttl, in seconds
TTL == 600

\* str(user_id)
DigitChars == <<"0", "1", "2", "3", "4", "5", "6", "7", "8", "9">>

RECURSIVE Decimal(_)
Decimal(n) ==
    IF n < Len(DigitChars) THEN <<DigitChars[n + 1]>>
    ELSE Decimal(n \div Len(DigitChars)) \o <<DigitChars[(n % Len(DigitChars)) + 1]>>

\* _get_user_namespace: f"user:{user_id}"
get_user_namespace(user_id) == <<"u", "s", "e", "r", ":">> \o Decimal(user_id)

\* f"{user_namespace}:{name}"
FullKey(user_id, name) == get_user_namespace(user_id) \o <<":">> \o name

\* The field names the callers use
FieldName == <<"n", "a", "m", "e">>
FieldPhone == <<"p", "h", "o", "n", "e">>
FieldTags == <<"t", "a", "g", "s">>

\* Redis glob-style matching of a key: * is any run of characters, ? is one
RECURSIVE GlobMatch(_, _)
GlobMatch(pattern, key) ==
    IF pattern = <<>> THEN key = <<>>
    ELSE IF Head(pattern) = "*"
    THEN \/ GlobMatch(Tail(pattern), key)
         \/ key # <<>> /\ GlobMatch(pattern, Tail(key))
    ELSE /\ key # <<>>
         /\ Head(pattern) = "?" \/ Head(pattern) = Head(key)
         /\ GlobMatch(Tail(pattern), Tail(key))

\* One Redis key: its value (a string, or a list of strings) and its expiry
RedisEntry(key, kind, value, volatile, expires_at) ==
    [key |-> key, kind |-> kind, value |-> value, volatile |-> volatile,
     expires_at |-> expires_at]

\* The entries a clock reading leaves
Unexpired(entries, clock) ==
    {e \in entries : e.volatile => e.expires_at > clock}

redis_exists(key) == \E e \in temp : e.key = key

redis_entry(key) == CHOOSE e \in temp : e.key = key

\* SET key value EX ttl, without the EX
redis_set_persistent(key, value, ttl) ==
    {e \in temp : e.key # key} \cup {RedisEntry(key, "string", value, FALSE, 0)}

\* SET key value EX ttl
redis_set(key, value, ttl) ==
    {e \in temp : e.key # key} \cup {RedisEntry(key, "string", value, TRUE, now + ttl)}

\* RPUSH key value followed by EXPIRE key ttl
redis_rpush_expire(key, value) ==
    IF redis_exists(key)
    THEN {e \in temp : e.key # key}
            \cup {RedisEntry(key, "list", Append(redis_entry(key).value, value),
                             TRUE, now + TTL)}
    ELSE temp \cup {RedisEntry(key, "list", <<value>>, TRUE, now + TTL)}

\* RPUSH key value: the expiry of an existing list is kept, a new list has none
redis_rpush(key, value) ==
    IF redis_exists(key)
    THEN {e \in temp : e.key # key}
            \cup {[redis_entry(key) EXCEPT !.value = Append(@, value)]}
    ELSE temp \cup {RedisEntry(key, "list", <<value>>, FALSE, 0)}

\* LRANGE key 0 -1
redis_lrange(key) == IF redis_exists(key) THEN redis_entry(key).value ELSE <<>>

\* KEYS pattern
redis_keys(pattern) == {e.key : e \in {x \in temp : GlobMatch(pattern, x.key)}}

\* DEL key ...
redis_delete(keys) == {e \in temp : e.key \notin keys}

\* The methods of TempDatabaseManager: the keys after the call, or its result
set_user_temp_value_by_name(user_id, temp_value_name, temp_value) ==
    redis_set(FullKey(user_id, temp_value_name), temp_value, TTL)

\* get_user_temp_value_by_name raises ValueError
get_user_temp_value_raises(user_id, key) == ~redis_exists(FullKey(user_id, key))

get_user_temp_value_by_name(user_id, key) == redis_entry(FullKey(user_id, key)).value

add_task_tag(user_id, tag) == redis_rpush(FullKey(user_id, FieldTags), tag)

get_task_tags(user_id) == redis_lrange(FullKey(user_id, FieldTags))

\* clear_user_data_from_redis with the pattern f"{user_namespace}*"
clear_user_data_no_separator(user_id) ==
    redis_delete(redis_keys(get_user_namespace(user_id) \o <<"*">>))

clear_user_data_from_redis(user_id) ==
    redis_delete(redis_keys(get_user_namespace(user_id) \o <<":", "*">>))

\* What a call of a method on its own leaves outside the Redis keys
MethodCalled(result) ==
    /\ calc' = result
    /\ event' = NoEvent
    /\ reply' = <<>>
    /\ UNCHANGED <<fsm_state, fsm_data, users, tasks, tags, now>>

set_value(u, name, value) ==
    /\ temp' = set_user_temp_value_by_name(u, name, value)
    /\ MethodCalled([op |-> "set", user |-> u, key |-> name])

get_value(u, key) ==
    /\ temp' = temp
    /\ MethodCalled([op |-> "get", user |-> u, key |-> key,
                     raises |-> get_user_temp_value_raises(u, key),
                     value |-> IF get_user_temp_value_raises(u, key) THEN <<>>
                               ELSE get_user_temp_value_by_name(u, key)])

add_tag(u, tag) ==
    /\ Len(get_task_tags(u)) < MaxList
    /\ temp' = add_task_tag(u, tag)
    /\ MethodCalled([op |-> "add_tag", user |-> u, key |-> FieldTags])

get_tags(u) ==
    /\ temp' = temp
    /\ MethodCalled([op |-> "get_tags", user |-> u, key |-> FieldTags,
                     value |-> get_task_tags(u)])

clear_user_data(u) ==
    /\ temp' = clear_user_data_from_redis(u)
    /\ MethodCalled([op |-> "clear", user |-> u, key |-> <<>>])

\* What a handler of the registration module leaves in the FSM storage (it
\* keeps no data there) and sends
TempHandled(u, t, st, rep, result) ==
    /\ event' = TextEvent(u, t)
    /\ fsm_state' = [fsm_state EXCEPT ![u] = st]
    /\ reply' = rep
    /\ calc' = result
    /\ UNCHANGED <<fsm_data, tasks, tags, now>>

\* handlers/start_handler.py, cmd_start
temp_cmd_start(u, t) ==
    /\ t = TxtStart
    /\ fsm_data' = [fsm_data EXCEPT ![u] = EmptyDict]
    /\ event' = TextEvent(u, t)
    /\ reply' = <<Msg(IF get_user_by_id(u) THEN "already_registered" ELSE "ask_name")>>
    /\ fsm_state' = [fsm_state EXCEPT
                        ![u] = IF get_user_by_id(u) THEN "none" ELSE "awaiting_name"]
    /\ UNCHANGED <<users, tasks, tags, calc, temp, now>>

\* handlers/registration_handlers.py, handle_name
temp_handle_name(u, t) ==
    /\ t # TxtStart
    /\ fsm_state[u] = "awaiting_name"
    /\ IF t = <<>>
       THEN /\ TempHandled(u, t, fsm_state[u], <<Msg("name_empty")>>, calc)
            /\ temp' = temp
       ELSE /\ TempHandled(u, t, "awaiting_phone", <<Msg("ask_phone")>>, calc)
            /\ temp' = set_user_temp_value_by_name(u, FieldName, t)
    /\ UNCHANGED users

\* The handler ended by an exception nothing catches
Raised(u, error) == [op |-> "raised", user |-> u, error |-> error]

\* handlers/registration_handlers.py, handle_phone and _complete_registration
temp_handle_phone(u, t) ==
    /\ t # TxtStart
    /\ fsm_state[u] = "awaiting_phone"
    /\ IF t = <<>>
       THEN /\ TempHandled(u, t, fsm_state[u], <<Msg("phone_empty")>>, calc)
            /\ UNCHANGED <<temp, users>>
       ELSE IF ~is_valid_phone(t)
       THEN /\ TempHandled(u, t, fsm_state[u], <<Msg("phone_invalid")>>, calc)
            /\ UNCHANGED <<temp, users>>
       ELSE IF get_user_temp_value_raises(u, FieldName)
       THEN /\ TempHandled(u, t, fsm_state[u], <<>>, Raised(u, "ValueError"))
            /\ temp' = set_user_temp_value_by_name(u, FieldPhone, t)
            /\ UNCHANGED users
       ELSE /\ users' = add_user(u, get_user_temp_value_by_name(u, FieldName), t)
            /\ temp' = clear_user_data_from_redis(u)
            /\ TempHandled(u, t, "start_menu",
                           <<RegisteredMsg(CHOOSE row \in users' : row.id = u)>>, calc)

\* Time passes: the keys whose expiry time is reached are gone
MaxClock == 3

ClockStep == TTL \div 2

advance_clock ==
    /\ now + ClockStep <= MaxClock * ClockStep
    /\ now' = now + ClockStep
    /\ temp' = Unexpired(temp, now')
    /\ event' = NoEvent
    /\ reply' = <<>>
    /\ UNCHANGED <<fsm_state, fsm_data, users, tasks, tags, calc>>

\* Two unregistered users whose ids share a decimal prefix
TempUsers == {3, 30}

InitTemp ==
    /\ fsm_state = [u \in TempUsers |-> "none"]
    /\ fsm_data = [u \in TempUsers |-> EmptyDict]
    /\ event = NoEvent
    /\ reply = <<>>
    /\ calc = CalcIdle
    /\ temp = {}
    /\ now = 0
    /\ users = {User(id, <<"a">>, TxtPhone) : id \in Registered}
    /\ tasks = <<>>
    /\ tags = <<>>

\* The methods of TempDatabaseManager called on their own, and time passing
NextTemp ==
    \/ \E u \in TempUsers, name \in {FieldName, FieldPhone} : set_value(u, name, TxtA)
    \/ \E u \in TempUsers, key \in {FieldName, FieldPhone} : get_value(u, key)
    \/ \E u \in TempUsers : add_tag(u, TxtA)
    \/ \E u \in TempUsers : get_tags(u)
    \/ \E u \in TempUsers : clear_user_data(u)
    \/ advance_clock

SpecTemp == InitTemp /\ [][NextTemp]_vars

\* The registration that keeps its data in TempDatabaseManager, and time passing
NextTempReg ==
    \/ \E u \in TempUsers : temp_cmd_start(u, TxtStart)
    \/ \E u \in TempUsers, t \in {<<>>, TxtA} : temp_handle_name(u, t)
    \/ \E u \in TempUsers, t \in {<<>>, TxtPhone, TxtBadPhone} : temp_handle_phone(u, t)
    \/ advance_clock

SpecTempReg == InitTemp /\ [][NextTempReg]_vars

-----------------------------------------------------------------------------
(* Messages whose from_user is None *)

\* The chat a message without a sender arrives in
NoUserCalc(chat) == [op |-> "message_without_user", chat |-> chat]

\* A text message with from_user None in the chat whose FSM context is c, taken
\* by the first handler, in the routers' order, whose filters accept it.
\* add_task_handler and handle_all_other_messages do not look at from_user;
\* cmd_start, the two registration handlers, handle_name and handle_tags of
\* add_task_handler.py, _fetch_user_id of list_tasks_handler.py and the three
\* message handlers of search_task_handler.py answer the error and return.
message_without_user(c, t) ==
    /\ event' = TextEvent(0, t)
    /\ calc' = NoUserCalc(c)
    /\ IF ~IsStart(t) /\ fsm_state[c] = "start_menu" /\ t = TxtAddTask
       THEN /\ fsm_state' = [fsm_state EXCEPT ![c] = "waiting_name"]
            /\ UNCHANGED fsm_data
            /\ reply' = <<Msg("ask_task_name")>>
       ELSE IF Unmatched(fsm_state[c], t)
       THEN /\ fsm_state' = [fsm_state EXCEPT ![c] = "none"]
            /\ fsm_data' = [fsm_data EXCEPT ![c] = EmptyDict]
            /\ reply' = <<Msg("not_understood")>>
       ELSE /\ UNCHANGED <<fsm_state, fsm_data>>
            /\ reply' = <<Msg("user_error")>>
    /\ StoreUnchanged
    /\ UNCHANGED <<temp, now>>

\* The dialogues of a registered user's chat, where a message may come without
\* a sender
NextNoUser ==
    \/ \E u \in Users, t \in MenuTexts : cmd_start(u, t)
    \/ \E u \in Users, t \in Texts : handle_all_other_messages(u, t)
    \/ \E u \in Users, t \in MenuTexts : add_task_handler(u, t)
    \/ \E u \in Users, t \in FreeTexts : add_handle_name(u, t)
    \/ \E u \in Users, t \in FreeTexts : add_handle_tags(u, t)
    \/ \E u \in Users, t \in MenuTexts : search_task_handler(u, t)
    \/ \E u \in Users, t \in FreeTexts : handle_query(u, t)
    \/ \E u \in Users : search_tags_button_handler(u)
    \/ \E u \in Users, t \in FreeTexts : search_handle_tags(u, t)
    \/ \E c \in Users, t \in Texts : message_without_user(c, t)

SpecNoUser == Init /\ [][NextNoUser]_vars

(* The Search input on its own, with texts that hold commas and blanks *)

TxtComma == <<",">>
TxtBlank == <<" ">>
TxtAcommaC == <<"a", ",", " ", "c">>

\* The texts typed into the search: none, one word, two words around a comma
\* and a blank, a comma alone, a blank alone
TokenTexts == {<<>>, TxtA, TxtAcommaC, TxtComma, TxtBlank}

NextSearchInput ==
    \/ \E u \in Users, t \in StartTexts : cmd_start(u, t)
    \/ \E u \in Users, t \in MenuTexts : search_task_handler(u, t)
    \/ \E u \in Users, t \in TokenTexts : handle_query(u, t)
    \/ \E u \in Users, t \in TokenTexts : search_handle_tags(u, t)
    \/ \E u \in Users : search_tags_button_handler(u)
    \/ \E u \in Users : search_query_button_handler(u)
    \/ \E u \in Users : end_search_button_handler(u)

SpecSearchInput == Init /\ [][NextSearchInput]_vars

(* database_manager.py, add_task as the coroutine it is: every await on the *)
(* session is a point where the add_task call of another update may run     *)

\* The add_task calls a run makes at most
MaxCalls == 3

\* The users whose add_task calls run side by side
Callers == Registered

\* No add_task call of the caller is running
CallIdle == [pc |-> "idle", name |-> <<>>, tag_names |-> <<>>,
             existing_ids |-> <<>>, new_ids |-> <<>>]

\* The calls made so far, and where each caller's running call stands
AddTaskCalls(made, calls) == [op |-> "add_task", made |-> made, calls |-> calls]

\* The ids of the Tag rows select(Tag).where(Tag.name.in_(tags)) returns
select_tags_by_names(tag_names) ==
    SelectSeq([i \in 1..Len(tags) |-> i],
              LAMBDA i : \E j \in 1..Len(tag_names) : tags[i] = tag_names[j])

\* add_task up to the result of the select: the user is found, the Task object
\* is built, the existing Tag rows are read
add_task_select(u, name, tag_names) ==
    /\ calc.made < MaxCalls
    /\ calc.calls[u].pc = "idle"
    /\ get_user_by_id(u)
    /\ calc' = AddTaskCalls(calc.made + 1,
                  [calc.calls EXCEPT ![u] =
                      [pc |-> IF tag_names = <<>> THEN "tags_committed" ELSE "selected",
                       name |-> name, tag_names |-> tag_names,
                       existing_ids |-> select_tags_by_names(tag_names),
                       new_ids |-> <<>>]])
    /\ event' = NoEvent
    /\ reply' = <<>>
    /\ UNCHANGED <<fsm_state, fsm_data, users, tasks, tags, temp, now>>

\* session.add_all(new_tags); await session.commit(): the names that were not
\* among the rows read become new Tag rows
add_task_commit_tags(u) ==
    /\ calc.calls[u].pc = "selected"
    /\ LET call == calc.calls[u]
           existing_names == {tags[call.existing_ids[i]] : i \in 1..Len(call.existing_ids)}
           names == {call.tag_names[j] : j \in 1..Len(call.tag_names)} \ existing_names
       IN  \E new_order \in OrdersOf(names) :
              /\ tags' = tags \o new_order
              /\ calc' = AddTaskCalls(calc.made,
                            [calc.calls EXCEPT ![u].pc = "tags_committed",
                                               ![u].new_ids =
                                                   [i \in 1..Len(new_order) |-> Len(tags) + i]])
    /\ event' = NoEvent
    /\ reply' = <<>>
    /\ UNCHANGED <<fsm_state, fsm_data, users, tasks, temp, now>>

\* session.add(new_task); await session.commit(): the Task row with the Tag
\* rows read and the Tag rows created
add_task_commit_task(u) ==
    /\ calc.calls[u].pc = "tags_committed"
    /\ LET call == calc.calls[u]
       IN  tasks' = Append(tasks, Task(Len(tasks) + 1, call.name, u,
                                       call.existing_ids \o call.new_ids))
    /\ calc' = AddTaskCalls(calc.made, [calc.calls EXCEPT ![u] = CallIdle])
    /\ event' = NoEvent
    /\ reply' = <<>>
    /\ UNCHANGED <<fsm_state, fsm_data, users, tags, temp, now>>

\* The tag lists the callers request
RequestedTags == {<<>>, <<TxtA>>, <<TxtB>>, <<TxtA, TxtB>>}

\* Two registered users, an empty tasks table and an empty tags table
InitConcurrent ==
    /\ fsm_state = [u \in Users |-> "none"]
    /\ fsm_data = [u \in Users |-> EmptyDict]
    /\ event = NoEvent
    /\ reply = <<>>
    /\ calc = AddTaskCalls(0, [u \in Callers |-> CallIdle])
    /\ temp = {}
    /\ now = 0
    /\ users = {User(id, <<"a">>, TxtPhone) : id \in Registered}
    /\ tasks = <<>>
    /\ tags = <<>>

NextConcurrent ==
    \/ \E u \in Callers, tag_names \in RequestedTags : add_task_select(u, TxtA, tag_names)
    \/ \E u \in Callers : add_task_commit_tags(u)
    \/ \E u \in Callers : add_task_commit_task(u)

SpecConcurrent == InitConcurrent /\ [][NextConcurrent]_vars

(* The open-task listing on its own, over small stores *)

\* The numbers of tasks user 1 owns at the start: none, one, a page and one
ListingCounts == {0, 1, PAGE_SIZE + 1}

\* The task ids a mark-completed button may carry: the first task and the
\* task on the second page
ListingIds == {1, PAGE_SIZE + 1}

InitListing ==
    /\ InitSession
    /\ users = {User(id, <<"a">>, TxtPhone) : id \in Registered}
    /\ \E n \in ListingCounts : tasks = StoreTasks(n)
    /\ tags = StoreTags

NextListing ==
    \/ \E u \in Users, t \in StartTexts : cmd_start(u, t)
    \/ \E u \in Users, t \in MenuTexts : list_task_handler(u, t)
    \/ \E u \in Users, id \in ListingIds : task_is_completed_handler(u, id)
    \/ \E u \in Users : next_page_handler(u)
    \/ \E u \in Users : prev_page_handler(u)

SpecListing == InitListing /\ [][NextListing]_vars

(* The pure functions applied to bounded inputs *)

\* get_total_pages_from_tasks_by_page_size and paginate_tasks on a list of n
\* items, a page size p and a page index i
PageCalc ==
    /\ \E n \in 0..MaxItems, p \in 1..MaxPageSize, i \in 0..MaxPageIndex :
          LET items == [k \in 1..n |-> k]
          IN  calc' = [op |-> "page", items |-> items, page_size |-> p, page |-> i,
                       total |-> get_total_pages_from_tasks_by_page_size(items, p),
                       slice |-> paginate_tasks(items, i, p)]
    /\ UNCHANGED <<fsm_state, fsm_data, users, tasks, tags, event, reply, temp, now>>

SpecPage == Init /\ [][PageCalc]_vars

\* The keywords and tag names handed to search_tasks on its own
TxtUnderscore == <<"_">>
SearchWords == {TxtA, TxtB, TxtUnderscore}
SearchTagNames == {TxtA, TxtB}

ListsOf(S, n) == UNION {[1..k -> S] : k \in 0..n}

\* search_tasks for a user, a keyword list and a tag-name list
SearchCalc ==
    /\ \E u \in Users \cup {OtherUser}, query \in ListsOf(SearchWords, MaxList),
          tag_names \in ListsOf(SearchTagNames, MaxList) :
          calc' = [op |-> "search", user |-> u, query |-> query, tag_names |-> tag_names,
                   raises |-> search_tasks_raises(query, tag_names),
                   found |-> IF search_tasks_raises(query, tag_names) THEN <<>>
                             ELSE search_tasks(u, query, tag_names)]
    /\ UNCHANGED <<fsm_state, fsm_data, users, tasks, tags, event, reply, temp, now>>

SpecSearchFn == Init /\ [][SearchCalc]_vars

-----------------------------------------------------------------------------
(* Claims about the pagination functions (SpecPage) *)

\* The least k with k * p >= n
CeilDiv(n, p) == CHOOSE k \in 0..n : k * p >= n /\ (k = 0 \/ (k - 1) * p < n)

RECURSIVE PagesFrom(_, _, _, _)
PagesFrom(items, page, total, page_size) ==
    IF page >= total THEN <<>>
    ELSE paginate_tasks(items, page, page_size)
             \o PagesFrom(items, page + 1, total, page_size)

\* C2: the slice of page i holds exactly the items at positions i*p .. i*p+p-1, in
\* their order and at most p of them; it is empty for every i >= total_pages; and
\* the slices of pages 0 .. total_pages-1 one after the other are the item list.
C2_PageSlice ==
    calc.op = "page" =>
        LET n == Len(calc.items)
            p == calc.page_size
            first == calc.page * p
            count == IF first >= n THEN 0 ELSE Min(p, n - first)
        IN  /\ calc.slice = [k \in 1..count |-> calc.items[first + k]]
            /\ Len(calc.slice) <= p
            /\ (calc.page >= calc.total => calc.slice = <<>>)
            /\ PagesFrom(calc.items, 0, calc.total, p) = calc.items

\* A partly filled last page, and a page index past the last page
C2_Witness ==
    /\ calc.op = "page"
    /\ Len(calc.items) = 7 /\ calc.page_size = 3
    /\ \/ calc.page = 2 /\ calc.slice = <<7>>
       \/ calc.page = 3 /\ calc.slice = <<>>


-----------------------------------------------------------------------------
(* Claims about paging through a listing (SpecFixed) *)

\* The event handled by the step is the action d of user u
ActionStep(u, d) == event' = ActionEvent(u, d, 0)

\* The page reached from page 0 by k next_page events when the stored last-page
\* index is last_page
RECURSIVE NextPageTimes(_, _)
NextPageTimes(k, last_page) ==
    IF k = 0 THEN 0 ELSE next_page_index(NextPageTimes(k - 1, last_page), last_page)

\* The open-task listing of user u has been rendered in this session
ListingShown(u) == "last_page" \in DOMAIN fsm_data[u]

\* The search-result listing of user u has been rendered in this session and no
\* new keywords or tags have been typed since
SearchListingShown(u) ==
    /\ "last_page_search_list" \in DOMAIN fsm_data[u]
    /\ "keywords_and_tags" \in DOMAIN fsm_data[u]
    /\ DictGet(fsm_data[u], "keywords", <<>>) = <<>>
    /\ DictGet(fsm_data[u], "tags", <<>>) = <<>>

\* The tasks of the search-result listing of user u
SearchListing(u) ==
    search_tasks(u, fsm_data[u].keywords_and_tags[1], fsm_data[u].keywords_and_tags[2])

\* The stored last-page index is total_pages - 1, and from page 0 the k-th
\* next_page reaches page k for k < total_pages and page 0 for k = total_pages
CycleOf(items, last_page) ==
    LET total_pages == get_total_pages_from_tasks_by_page_size(items, PAGE_SIZE)
    IN  /\ last_page = total_pages - 1
        /\ \A k \in 0..(total_pages - 1) : NextPageTimes(k, last_page) = k
        /\ NextPageTimes(total_pages, last_page) = 0

\* A step from page `from` of the listing of items renders page `to`
Renders(u, items, to, nav, cursor) ==
    LET total_pages == get_total_pages_from_tasks_by_page_size(items, PAGE_SIZE)
    IN  /\ fsm_data'[u][cursor] = to
        /\ reply' = <<PageMsg(paginate_tasks(items, to, PAGE_SIZE), to, total_pages,
                              TRUE, IF total_pages = 1 /\ nav = SearchNav
                                    THEN <<>> ELSE nav)>>

C3_OpenStep(u) ==
    LET items == get_not_completed_tasks_by_user_id(tasks, u)
        total_pages == get_total_pages_from_tasks_by_page_size(items, PAGE_SIZE)
        page == DictGet(fsm_data[u], "page", 0)
    IN  (ListingShown(u) /\ page <= fsm_data[u].last_page) =>
          /\ ActionStep(u, "next_page") =>
                Renders(u, items, (page + 1) % total_pages, ListNav, "page")
          /\ ActionStep(u, "prev_page") =>
                Renders(u, items, (page + total_pages - 1) % total_pages, ListNav, "page")

C3_SearchStep(u) ==
    LET items == SearchListing(u)
        total_pages == get_total_pages_from_tasks_by_page_size(items, PAGE_SIZE)
        page == DictGet(fsm_data[u], "page_search_list", 0)
    IN  (SearchListingShown(u) /\ page <= fsm_data[u].last_page_search_list) =>
          /\ ActionStep(u, "next_page_search") =>
                Renders(u, items, (page + 1) % total_pages, SearchNav,
                        "page_search_list")
          /\ ActionStep(u, "prev_page_search") =>
                Renders(u, items, (page + total_pages - 1) % total_pages, SearchNav,
                        "page_search_list")

\* C3: in a listing over an unchanged task set (open tasks or search results)
\* the stored last-page index is total_pages - 1; from a page index 0 .. last,
\* next_page renders the page after it modulo total_pages (page 0 from the last
\* index) and prev_page the page before it modulo total_pages (the last index
\* from page 0); so total_pages consecutive next_page events from page 0 visit
\* every page once and return to page 0.
C3_WrapAround ==
    /\ [](\A u \in Users :
            /\ ListingShown(u) =>
                  CycleOf(get_not_completed_tasks_by_user_id(tasks, u),
                          fsm_data[u].last_page)
            /\ SearchListingShown(u) =>
                  CycleOf(SearchListing(u), fsm_data[u].last_page_search_list))
    /\ [][\A u \in Users : C3_OpenStep(u) /\ C3_SearchStep(u)]_vars

\* Twelve open tasks, five to a page: next_page from page 2 (tasks 11-12) has
\* rendered page 0 (tasks 1-5) of 3
C3_Witness ==
    /\ Len(tasks) = 13
    /\ event = ActionEvent(1, "next_page", 0)
    /\ reply = <<PageMsg(<<1, 2, 3, 4, 5>>, 0, 3, TRUE, ListNav)>>
    /\ fsm_data[1].page = 0 /\ fsm_data[1].last_page = 2

\* The search listing of ten results: prev_page from page 0 has rendered page 1
C3_SearchWitness ==
    /\ event = ActionEvent(1, "prev_page_search", 0)
    /\ Len(reply) = 1 /\ reply[1].page = 1 /\ reply[1].total = 2
    /\ fsm_data[1].page_search_list = 1


-----------------------------------------------------------------------------
(* Claims about the open-task listing after a task is marked complete (Spec) *)

\* C4, as stated: after a mark-complete, next_page or prev_page event of the
\* open-task listing, when the user still has open tasks, the stored last-page
\* index is total_pages - 1 of the current open-task set, the rendered page index
\* is at most total_pages - 1 and the rendered page is not empty.
C4_PageWithinCurrentPages ==
    \A u \in Users :
        LET open == get_not_completed_tasks_by_user_id(tasks, u)
            total_pages == get_total_pages_from_tasks_by_page_size(open, PAGE_SIZE)
            shown == reply[Len(reply)]
        IN  (/\ event.kind = "action" /\ event.user = u
             /\ event.data \in {"task_is_completed", "next_page", "prev_page"}
             /\ open # <<>>)
            => /\ fsm_data[u].last_page = total_pages - 1
               /\ shown.msg = "tasks"
               /\ shown.page <= total_pages - 1
               /\ shown.items # <<>>

\* The case: of eleven open tasks the only task of page 2 is marked complete
\* while page 2 is shown; page 3/2 is rendered with no task on it, and the stored
\* last-page index is still 2
C4_StalePageRendered ==
    /\ event = ActionEvent(1, "task_is_completed", StartCount)
    /\ Len(get_not_completed_tasks_by_user_id(tasks, 1)) = StartCount - 1
    /\ reply = <<Msg("task_marked_completed"), PageMsg(<<>>, 2, 2, TRUE, ListNav)>>
    /\ fsm_data[1].last_page = 2


-----------------------------------------------------------------------------
(* Claims about search_tasks (SpecSearchFn) *)

\* word occurs in text as a substring, letter case ignored
Contains(text, word) ==
    \E i \in 0..(Len(text) - Len(word)) :
        Lower(SubSeq(text, i + 1, i + Len(word))) = Lower(word)

\* The ids of the tasks of user_id whose name contains some keyword or that carry
\* some of the tag names
SubstringOrTag(user_id, query, tag_names) ==
    {i \in 1..Len(tasks) :
        /\ tasks[i].user_id = user_id
        /\ \/ \E k \in 1..Len(query) : Contains(tasks[i].name, query[k])
           \/ \E k \in 1..Len(tag_names) : tag_names[k] \in TagNamesOf(tasks[i])}

\* C5, as stated: with at least one list non-empty, search_tasks returns exactly
\* the tasks of the user whose name contains some keyword as a case-insensitive
\* substring or that carry some supplied tag name, and no task of another user.
C5_SubstringOrTag ==
    (calc.op = "search" /\ ~calc.raises) =>
        /\ {calc.found[i] : i \in 1..Len(calc.found)}
              = SubstringOrTag(calc.user, calc.query, calc.tag_names)
        /\ \A i \in 1..Len(calc.found) : tasks[calc.found[i]].user_id = calc.user

\* The case: the keyword "_" is contained in no task name, and search_tasks
\* returns every task of the user
C5_WildcardKeyword ==
    /\ calc.op = "search" /\ calc.user = 1
    /\ calc.query = <<TxtUnderscore>> /\ calc.tag_names = <<>>
    /\ SubstringOrTag(1, calc.query, calc.tag_names) = {}
    /\ Len(calc.found) = StartCount


-----------------------------------------------------------------------------
(* Claims about the end of the search input (Spec) *)

\* The keyword list and the tag list the user has accumulated
AccumulatedKeywords(u) == DictGet(fsm_data[u], "keywords", <<>>)
AccumulatedTags(u) == DictGet(fsm_data[u], "tags", <<>>)

\* The response to the step is the end-of-search notice followed by the answer m
EndSearchAnswer(m) == reply' = <<Msg("search_finished"), Msg(m)>>

\* The step leaves user u with an empty data bag in the idle menu state
ClearedToIdle(u) == fsm_data'[u] = EmptyDict /\ fsm_state'[u] = "start_menu"

\* C6, as stated: whatever came before, an end-search action processed while the
\* accumulated keyword list and tag list are both empty is answered as an invalid
\* query, renders no listing, clears the session and leaves the user idle.
C6_EmptyCriteriaRejected ==
    [][\A u \in Users :
          (/\ ActionStep(u, "end_search")
           /\ AccumulatedKeywords(u) = <<>> /\ AccumulatedTags(u) = <<>>)
          => /\ EndSearchAnswer("keywords_and_tags_both_empty")
             /\ ClearedToIdle(u)]_vars

\* The case: end-search with both lists empty has rendered a listing from the
\* criteria of an earlier search
C6_StaleCriteriaListed ==
    /\ event = ActionEvent(1, "end_search", 0)
    /\ DictGet(fsm_data[1], "keywords", <<>>) = <<>>
    /\ DictGet(fsm_data[1], "tags", <<>>) = <<>>
    /\ Len(reply) = 2 /\ reply[2].msg = "tasks"
    /\ fsm_data[1].keywords_and_tags = << <<TxtA>>, <<>> >>


\* The tasks an end-search action of user u searches for
EndSearchFound(u) == search_tasks(u, AccumulatedKeywords(u), AccumulatedTags(u))

\* An end-search action of user u with criteria
EndSearchStep(u) ==
    /\ ActionStep(u, "end_search")
    /\ AccumulatedKeywords(u) # <<>> \/ AccumulatedTags(u) # <<>>

\* C7: an end-search action with non-empty criteria whose search returns no task
\* is answered with the nothing-found message, clears the data bag and leaves the
\* user in the idle menu state.
C7_NothingFound ==
    [][\A u \in Users :
          (EndSearchStep(u) /\ EndSearchFound(u) = <<>>)
          => /\ EndSearchAnswer("nothing_found")
             /\ ClearedToIdle(u)]_vars

\* A search for the keyword "c", which is in no task name, has ended
C7_Witness ==
    /\ event = ActionEvent(1, "end_search", 0)
    /\ reply = <<Msg("search_finished"), Msg("nothing_found")>>
    /\ fsm_data[1] = EmptyDict
    /\ fsm_state[1] = "start_menu"

\* An end-search step with results renders page 0 and stores the last-page index
\* total_pages - 1; no next_page or prev_page step of the listing changes the
\* stored index; after each of these steps the user is in state st
SearchListingSteps(u, st) ==
    LET found == EndSearchFound(u)
        total_pages == get_total_pages_from_tasks_by_page_size(found, PAGE_SIZE)
    IN  /\ (EndSearchStep(u) /\ found # <<>>)
           => /\ reply' = <<Msg("search_finished"),
                            PageMsg(paginate_tasks(found, 0, PAGE_SIZE), 0, total_pages,
                                    FALSE, IF total_pages = 1 THEN <<>> ELSE SearchNav)>>
              /\ fsm_data'[u].last_page_search_list = total_pages - 1
              /\ fsm_state'[u] = st
        /\ (/\ SearchListingShown(u)
            /\ ActionStep(u, "next_page_search") \/ ActionStep(u, "prev_page_search"))
           => /\ fsm_data'[u].last_page_search_list = fsm_data[u].last_page_search_list
              /\ fsm_state'[u] = st

C9_EndListingClears ==
    [][\A u \in Users :
          ActionStep(u, "end_task_list")
          => /\ ClearedToIdle(u)
             /\ reply' = <<Msg("listing_finished")>>
             /\ UNCHANGED <<users, tasks, tags>>]_vars

\* The end-listing action has been handled
C9_Witness ==
    /\ event = ActionEvent(1, "end_task_list", 0)
    /\ reply = <<Msg("listing_finished")>>
    /\ fsm_data[1] = EmptyDict
    /\ fsm_state[1] = "start_menu"


-----------------------------------------------------------------------------
(* Claims about the Add-Task dialogue (Spec) *)

\* The event handled by the step is a text message of user u with a text that is
\* not empty and is not taken by the start handler
TextStep(u) ==
    /\ event'.kind = "text" /\ event'.user = u
    /\ event'.text # <<>> /\ ~IsStart(event'.text)

\* The tag candidates collected for user u
CollectedTags(u) == DictGet(fsm_data[u], "tags", <<>>)

-----------------------------------------------------------------------------
(* Claims about the end of the Add-Task dialogue (SpecAdd) *)

\* The task name and the tag candidates the session of user u holds
StoredTaskName(u) == DictGet(fsm_data[u], "task_name", <<>>)

\* The elements of a list
Range(s) == {s[i] : i \in 1..Len(s)}

\* The step has appended exactly the Task rows `added` to the tasks table
TasksAdded(added) == tasks' = tasks \o added

\* The names of the Tag rows the new Task row references after the step
NewTaskTagNames == {tags'[id] : id \in Range(tasks'[Len(tasks')].tags)}

\* C11: a finish-tags action with a task name in the session makes one
\* create_task call with that name and the collected tags: at most one Task row is
\* added, and when the store commits it the row is an open task of the user with
\* the stored name carrying exactly the collected tag names (none when no tag was
\* collected); the user is told the task was added, the data bag is left with no
\* task name and an empty tag list only, and the state is the idle menu state.
C11_FinishTagsCommits ==
    [][\A u \in Users :
          (ActionStep(u, "end_tags") /\ StoredTaskName(u) # <<>>)
          => /\ \/ TasksAdded(<<>>)
                \/ /\ TasksAdded(<<tasks'[Len(tasks')]>>)
                   /\ tasks'[Len(tasks')].id = Len(tasks) + 1
                   /\ tasks'[Len(tasks')].name = StoredTaskName(u)
                   /\ tasks'[Len(tasks')].user_id = u
                   /\ tasks'[Len(tasks')].is_completed = FALSE
                   /\ NewTaskTagNames = Range(CollectedTags(u))
             /\ reply' = <<Msg("task_added")>>
             /\ fsm_data'[u] = [k \in {"tags"} |-> <<>>]
             /\ fsm_state'[u] = "start_menu"]_vars

\* A task named "a" with the tags "a" and "c" has been committed, after one
\* committed without a tag
C11_Witness ==
    /\ event = ActionEvent(1, "end_tags", 0)
    /\ reply = <<Msg("task_added")>>
    /\ Len(tasks) = StartCount + 2
    /\ tasks[StartCount + 1].tags = <<>>
    /\ tasks[StartCount + 2].name = TxtA
    /\ {tags[id] : id \in Range(tasks[StartCount + 2].tags)} = {TxtA, TxtC}
    /\ fsm_data[1] = [k \in {"tags"} |-> <<>>]
    /\ fsm_state[1] = "start_menu"


\* C12: a finish-tags action while the session holds no task name (missing or
\* empty) is answered with the "task name not found" error, and creates no Task
\* row and no Tag row; the dialogue state and the data bag stay as they were.
C12_FinishTagsWithoutName ==
    [][\A u \in Users :
          (ActionStep(u, "end_tags") /\ StoredTaskName(u) = <<>>)
          => /\ reply' = <<Msg("task_name_not_found")>>
             /\ tasks' = tasks
             /\ tags' = tags
             /\ users' = users
             /\ fsm_data'[u] = fsm_data[u]
             /\ fsm_state'[u] = fsm_state[u]]_vars

\* Finish-tags was pressed right after the "add task" menu entry, before a name
\* was typed, and was refused
C12_Witness ==
    /\ event = ActionEvent(1, "end_tags", 0)
    /\ reply = <<Msg("task_name_not_found")>>
    /\ fsm_state[1] = "waiting_name"
    /\ StoredTaskName(1) = <<>>


\* The step starts a run of the Add-Task dialogue for user u: a name is accepted
\* in waiting_name
RunStarts(u) == TextStep(u) /\ fsm_state[u] = "waiting_name"

\* The step enters one tag in the running Add-Task dialogue of user u
TagEntered(u) == TextStep(u) /\ fsm_state[u] = "waiting_tags"

\* C13: after the commit of an Add-Task dialogue the session holds no task name
\* and an empty tag list; and while a task name is held, the tag list that
\* finish-tags will pass to create_task is made of the tags entered in the run that
\* stored this name: the run starts with an empty list, whatever an abandoned
\* attempt left, and the list grows only by a tag entered in waiting_tags.
C13_OnlyTagsOfThisRun ==
    [][\A u \in Users :
          /\ (ActionStep(u, "end_tags") /\ StoredTaskName(u) # <<>>)
             => /\ DictGet(fsm_data'[u], "task_name", <<>>) = <<>>
                /\ DictGet(fsm_data'[u], "tags", <<>>) = <<>>
          /\ DictGet(fsm_data'[u], "task_name", <<>>) # <<>>
             => \/ /\ RunStarts(u)
                   /\ DictGet(fsm_data'[u], "tags", <<>>) = <<>>
                \/ /\ DictGet(fsm_data'[u], "task_name", <<>>) = StoredTaskName(u)
                   /\ \/ DictGet(fsm_data'[u], "tags", <<>>) = CollectedTags(u)
                      \/ /\ TagEntered(u)
                         /\ DictGet(fsm_data'[u], "tags", <<>>)
                               = Append(CollectedTags(u), event'.text)]_vars


\* The tag list held with the task name "a" has received the tag "a" from a text
\* typed in the Search state waiting_for_tags
C13_SearchTagInTaskTags ==
    /\ fsm_state[1] = "waiting_for_tags"
    /\ event = TextEvent(1, TxtA)
    /\ StoredTaskName(1) = TxtA
    /\ CollectedTags(1) = <<TxtA>>


\* The step handles a text message of user u received in an Add-Task input state
AddTaskMessage(u) ==
    /\ event'.kind = "text" /\ event'.user = u
    /\ fsm_state[u] \in {"waiting_name", "waiting_tags"}

\* C14: no message handled in waiting_name or waiting_tags changes the Tag table:
\* Tag rows are inserted by the finish-tags commit only, so a dialogue that is
\* abandoned before finish-tags leaves the Tag table as it was.
C14_NoTagBeforeCommit ==
    [][/\ \A u \in Users : AddTaskMessage(u) => tags' = tags
       /\ tags' # tags => \E u \in Users : ActionStep(u, "end_tags")]_vars

\* A tag name that has no Tag row is collected in waiting_tags and the Tag table
\* still has its initial rows
C14_Witness ==
    /\ fsm_state[1] = "waiting_tags"
    /\ event = TextEvent(1, TxtC)
    /\ CollectedTags(1) = <<TxtC>>
    /\ tags = StoreTags


\* The Tag table holds at most one row per name
OneTagPerName == \A i, j \in 1..Len(tags) : tags[i] = tags[j] => i = j

\* Every Task row references rows of the Tag table only
NoDanglingTag == \A i \in 1..Len(tasks) : Range(tasks[i].tags) \subseteq 1..Len(tags)

\* The step has appended to the Tag table one row for each name of the set S, and
\* nothing else
TagsCreated(S) ==
    \E new \in OrdersOf(S) : tags' = tags \o new

\* C15: with create_task calls processed one at a time, the Tag table never holds
\* two rows of one name and no task references a missing Tag row; each call
\* inserts exactly one row for every requested name that has no row yet, however
\* often the request repeats it, inserts none for a name that has a row, and a
\* committed task references exactly one row per requested name.
C15_TagsDeduplicated ==
    /\ [](OneTagPerName /\ NoDanglingTag)
    /\ [][\A u \in Users :
             (ActionStep(u, "end_tags") /\ StoredTaskName(u) # <<>>)
             => /\ TagsCreated(Range(CollectedTags(u)) \ Range(tags))
                /\ Len(tasks') = Len(tasks) + 1
                   => /\ NewTaskTagNames = Range(CollectedTags(u))
                      /\ Len(tasks'[Len(tasks')].tags)
                            = Cardinality(Range(CollectedTags(u)))]_vars

\* The tag "c" got its Tag row from one committed task and a later committed task
\* reuses that row
C15_Witness ==
    /\ event = ActionEvent(1, "end_tags", 0)
    /\ tags = StoreTags \o <<TxtC>>
    /\ Len(tasks) = StartCount + 2
    /\ tasks[StartCount + 1].tags = <<Len(tags)>>
    /\ tasks[StartCount + 2].tags = <<Len(tags)>>
    /\ OneTagPerName


\* C16: create_task is one atomic write: a finish-tags step that inserts Tag rows
\* also inserts the task they were requested for, so no state of the store holds
\* the new tags of a call without the task of that call.
C16_TagsOnlyWithTask ==
    [][\A u \in Users :
          (ActionStep(u, "end_tags") /\ tags' # tags)
          => Len(tasks') = Len(tasks) + 1]_vars

\* The Tag row "c" is stored, no task was added and no task references it
C16_TagsLeftBehind ==
    /\ event = ActionEvent(1, "end_tags", 0)
    /\ tags = StoreTags \o <<TxtC>>
    /\ tasks = StoreTasks(StartCount - 1)
    /\ \A i \in 1..Len(tasks) : Len(tags) \notin Range(tasks[i].tags)


-----------------------------------------------------------------------------
(* Claims about the completion flag and the store's failures (Spec) *)

\* The response of the step contains the message m
Answered(m) == \E i \in 1..Len(reply') : reply'[i].msg = m

\* The step handles a mark-completed button press of user u for a task id that
\* has no Task row
MarksMissingTask(u) ==
    /\ event'.kind = "action" /\ event'.user = u
    /\ event'.data = "task_is_completed"
    /\ event'.task_id \notin 1..Len(tasks)

\* C17: when the store finds no row to refer to (finish-tags for a user without a
\* User row, mark-completed for a task id without a Task row) the user gets no
\* success confirmation and the store is unchanged.
C17_ReferentialFailureReported ==
    [][\A u \in Users :
          /\ (ActionStep(u, "end_tags") /\ StoredTaskName(u) # <<>>
                /\ ~get_user_by_id(u))
             => (~Answered("task_added") /\ StoreUnchanged)
          /\ MarksMissingTask(u)
             => (~Answered("task_marked_completed") /\ StoreUnchanged)]_vars

\* The button press for task id 99, which no Task row has, was confirmed as
\* "marked completed"
C17_MissingTaskConfirmed ==
    /\ event = ActionEvent(1, "task_is_completed", 99)
    /\ reply # <<>>
    /\ reply[1].msg = "task_marked_completed"
    /\ Len(tasks) < 99


\* The step handles a mark-completed button press of user u for the Task row id
MarksTask(u, id) == event' = ActionEvent(u, "task_is_completed", id)

\* C18: marking a task that is already completed is confirmed like any marking and
\* leaves the store unchanged; marking an open task sets the flag of that row
\* only; no step of any handler changes a completion flag from true to false or
\* removes a row; every row added to the tasks table has the flag false.
C18_CompletionOneWay ==
    [][/\ \A u \in Users : \A id \in 1..Len(tasks) :
             MarksTask(u, id)
             => /\ Answered("task_marked_completed")
                /\ tasks' = [tasks EXCEPT ![id].is_completed = TRUE]
                /\ tasks[id].is_completed => StoreUnchanged
       /\ Len(tasks') >= Len(tasks)
       /\ \A i \in 1..Len(tasks) : tasks[i].is_completed => tasks'[i].is_completed
       /\ \A i \in (Len(tasks) + 1)..Len(tasks') : ~tasks'[i].is_completed]_vars

\* The task of user 1's last page was completed, the listing computed afterwards
\* (two pages, last page index 1) was turned to its last page, and the button of
\* the completed task was pressed again
C18_Witness ==
    /\ event = ActionEvent(1, "task_is_completed", StartCount)
    /\ tasks[StartCount].is_completed
    /\ reply[1].msg = "task_marked_completed"
    /\ Len(tasks) = StartCount + 1
    /\ fsm_data[1] = [k \in {"page", "last_page"} |-> 1]


-----------------------------------------------------------------------------
(* Claims about the input dialogues of a new user (SpecInput, SpecReg) *)

\* The re-prompt each input state answers an empty text with
EmptyTextPrompt ==
    [awaiting_name |-> "name_empty", awaiting_phone |-> "phone_empty",
     waiting_name |-> "task_name_empty", waiting_tags |-> "tag_empty",
     waiting_for_query |-> "keywords_empty", waiting_for_tags |-> "tags_empty"]

\* The step handles the text t sent by user u
TextHandled(u, t) == event' = TextEvent(u, t)

\* The step leaves every session and the store as they were and answers with the
\* one message m
OnlyReprompts(m) ==
    /\ fsm_state' = fsm_state
    /\ fsm_data' = fsm_data
    /\ StoreUnchanged
    /\ reply' = <<Msg(m)>>

\* C19: an input that fails validation (an empty text in any of the six input
\* states of Registration, Add-Task and Search, or the phone "12345" in
\* awaiting_phone) changes no dialogue state, no data bag and no table of the store;
\* the only effect is the re-prompt of that state.
C19_ValidationFailureReprompts ==
    [][\A u \in Newcomers :
          /\ (TextHandled(u, <<>>) /\ fsm_state[u] \in DOMAIN EmptyTextPrompt)
             => OnlyReprompts(EmptyTextPrompt[fsm_state[u]])
          /\ (TextHandled(u, TxtBadPhone) /\ fsm_state[u] = "awaiting_phone")
             => OnlyReprompts("phone_invalid")]_vars

\* The phone "12345" has been refused in awaiting_phone with the name still held
C19_Witness ==
    /\ event = TextEvent(3, TxtBadPhone)
    /\ reply = <<Msg("phone_invalid")>>
    /\ fsm_state[3] = "awaiting_phone"
    /\ fsm_data[3] = [k \in {"name"} |-> TxtA]
    /\ \A row \in users : row.id # 3

\* An empty text has been refused in the Search state waiting_for_tags with a tag
\* already collected
C19_EmptySearchTagRefused ==
    /\ event = TextEvent(3, <<>>)
    /\ reply = <<Msg("tags_empty")>>
    /\ fsm_state[3] = "waiting_for_tags"
    /\ DictGet(fsm_data[3], "tags", <<>>) = <<TxtA>>


\* The step handles a phone number that passes validation, sent by user u in
\* awaiting_phone
ValidPhoneEntered(u) == TextHandled(u, TxtPhone) /\ fsm_state[u] = "awaiting_phone"

\* The name user u entered in awaiting_name, as the session holds it
EnteredName(u) == DictGet(fsm_data[u], "name", <<>>)

\* C20: a valid phone in awaiting_phone creates the User row of the sender with
\* the name entered in awaiting_name and the phone just entered, leaves no name
\* and no phone in the session and puts the user in the idle menu state; no other
\* step of Registration changes the users table.
C20_RegistrationCreatesUser ==
    [][\A u \in Newcomers :
          /\ (ValidPhoneEntered(u) /\ ~get_user_by_id(u))
             => /\ users' = users \cup {User(u, EnteredName(u), TxtPhone)}
                /\ DictGet(fsm_data'[u], "name", <<>>) = <<>>
                /\ DictGet(fsm_data'[u], "phone", <<>>) = <<>>
                /\ fsm_state'[u] = "start_menu"
          /\ (event'.user = u /\ ~ValidPhoneEntered(u)) => users' = users]_vars

\* User 3 typed the name "a" and a valid phone and is registered with an empty
\* name
C20_RegisteredWithoutName ==
    /\ event = TextEvent(3, TxtPhone)
    /\ fsm_state[3] = "start_menu"
    /\ User(3, <<>>, TxtPhone) \in users
    /\ reply = <<RegisteredMsg(User(3, <<>>, TxtPhone))>>


\* The step handles a start event of user u: the start command or the main-menu
\* phrase
StartEvent(u) ==
    /\ event'.kind = "text" /\ event'.user = u
    /\ event'.text \in {TxtStart, TxtMainMenu}

\* A User row exists for the identity u
HasUserRecord(u) == \E row \in users : row.id = u

\* The states of the Registration dialogue
RegistrationStates == {"awaiting_name", "awaiting_phone"}

\* C21: a start event, whatever the dialogue state it arrives in, empties the
\* data bag of the sender, puts the sender in the idle menu state when a User row
\* exists and in awaiting_name when none does, and changes nothing in the store;
\* so no start event brings a registered user into a Registration state.
C21_StartRoutesByRegistration ==
    [][\A u \in Newcomers :
          StartEvent(u)
          => /\ fsm_data'[u] = << >>
             /\ HasUserRecord(u) => fsm_state'[u] = "start_menu"
             /\ ~HasUserRecord(u) => fsm_state'[u] = "awaiting_name"
             /\ HasUserRecord(u) => fsm_state'[u] \notin RegistrationStates
             /\ StoreUnchanged]_vars

\* User 3, registered (the registration leaves two empty fields in the bag), has
\* sent the main-menu phrase and is idle with an empty bag; the unregistered user 4
\* is in awaiting_name
C21_Witness ==
    /\ event = TextEvent(3, TxtMainMenu)
    /\ HasUserRecord(3)
    /\ fsm_state[3] = "start_menu"
    /\ fsm_data[3] = << >>
    /\ ~HasUserRecord(4)
    /\ fsm_state[4] = "awaiting_name"


\* The step handles a phone number that passes validation, sent by user u in
\* awaiting_phone while a User row of u exists
DuplicateRegistration(u) ==
    /\ event'.kind = "text" /\ event'.user = u
    /\ event'.text \in {TxtPhone, TxtPhone8}
    /\ fsm_state[u] = "awaiting_phone"
    /\ HasUserRecord(u)

\* C22: when the registration reaches create_user for a user who already has a
\* User row, the row keeps its name and phone, the answer is not the one a fresh
\* registration gets, no name and no phone stay in the session and the state is
\* the idle menu state.
C22_DuplicateRegistrationSurfaced ==
    [][\A u \in Newcomers :
          DuplicateRegistration(u)
          => /\ users' = users
             /\ ~Answered("registration_successful")
             /\ DictGet(fsm_data'[u], "name", <<>>) = <<>>
             /\ DictGet(fsm_data'[u], "phone", <<>>) = <<>>
             /\ fsm_state'[u] = "start_menu"]_vars

\* User 3, registered with the first phone number, has sent the second one in
\* awaiting_phone and got the answer of a successful registration, with the
\* stored phone
C22_DuplicateAnsweredAsSuccess ==
    /\ event = TextEvent(3, TxtPhone8)
    /\ users = {User(id, <<"a">>, TxtPhone) : id \in Registered}
                  \cup {User(3, <<>>, TxtPhone)}
    /\ reply = <<RegisteredMsg(User(3, <<>>, TxtPhone))>>
    /\ fsm_state[3] = "start_menu"


-----------------------------------------------------------------------------
(* Claims about events outside a dialogue (Spec) *)

\* The states whose message handlers take every text
InputStates ==
    RegistrationStates
        \cup {"waiting_name", "waiting_tags", "waiting_for_query", "waiting_for_tags"}

\* No handler before the default one takes the text t in the state st: t is not
\* a start text, st has no input handler, and t is not one of the three menu
\* phrases the idle menu state takes
NoHandlerFor(st, t) ==
    /\ t \notin {TxtStart, TxtMainMenu}
    /\ st \notin InputStates
    /\ st = "start_menu" => t \notin {TxtAddTask, TxtListTasks, TxtSearchTasks}

\* C23: a text message no handler takes in the sender's state is answered "not
\* understood", leaves the sender with an empty data bag and no dialogue state,
\* and changes nothing in the store; no other text message gets that answer.
C23_UnmatchedTextClears ==
    [][\A u \in Users :
          (event'.kind = "text" /\ event'.user = u)
          => /\ NoHandlerFor(fsm_state[u], event'.text)
                => /\ reply' = <<Msg("not_understood")>>
                   /\ fsm_data'[u] = << >>
                   /\ fsm_state'[u] = "none"
                   /\ StoreUnchanged
             /\ Answered("not_understood")
                => NoHandlerFor(fsm_state[u], event'.text)]_vars

\* After two tasks were added, a text that is no menu phrase was sent from the
\* idle menu state (the add-task phrase is taken there): the session is empty
C23_Witness ==
    /\ event = TextEvent(1, TxtA)
    /\ reply = <<Msg("not_understood")>>
    /\ fsm_state[1] = "none"
    /\ fsm_data[1] = << >>
    /\ Len(tasks) = StartCount + 2


-----------------------------------------------------------------------------
(* Claims about the ephemeral session store (SpecTempReg, SpecTemp) *)

\* The Redis entries that hold a field of user u
FieldsOf(entries, u) ==
    {e \in entries :
        \E name \in {FieldName, FieldPhone, FieldTags} :
            e.key = <<"u", "s", "e", "r", ":">> \o Decimal(u) \o <<":">> \o name}

\* The step leaves the dialogue state, the data bag and the stored fields of
\* user b as they were
SessionKept(b) ==
    /\ fsm_state'[b] = fsm_state[b]
    /\ fsm_data'[b] = fsm_data[b]
    /\ FieldsOf(temp', b) = FieldsOf(temp, b)

\* C24: an event handled for one user, in any interleaving with the events of
\* another, leaves the other user's dialogue state, data bag and stored fields
\* unchanged; in particular the clear that ends the registration of user 3 deletes
\* no field of user 30, whose decimal id starts with 3.
C24_SessionIsolation ==
    [][\A a, b \in TempUsers :
          (a # b /\ event'.user = a) => SessionKept(b)]_vars

\* User 3 has completed the registration, which cleared the fields of user 3,
\* while the name of user 30 is still stored
C24_Witness ==
    /\ event = TextEvent(3, TxtPhone)
    /\ fsm_state[3] = "start_menu"
    /\ FieldsOf(temp, 3) = {}
    /\ fsm_state[30] = "awaiting_phone"
    /\ \E e \in FieldsOf(temp, 30) : e.value = TxtA

\* C24, for the methods called on their own: no call made for one user changes a
\* stored field of another user.
C24_MethodsIsolated ==
    [][\A a, b \in TempUsers :
          (a # b /\ calc'.op # "none" /\ calc'.user = a /\ now' = now)
          => FieldsOf(temp', b) = FieldsOf(temp, b)]_vars


-----------------------------------------------------------------------------
(* Claims about messages without a sender (SpecNoUser) *)

\* A message came without a sender
NoUserEvent == event.kind = "text" /\ event.user = 0

\* C25: a message without a resolvable sender is answered with the error and
\* changes neither the dialogue state, nor the data bag, nor the store.
C25_NoUserEventRejected ==
    [][NoUserEvent'
       => /\ reply' = <<Msg("user_error")>>
          /\ UNCHANGED <<fsm_state, fsm_data>>
          /\ StoreUnchanged]_vars

\* The handlers that look at from_user answer the error and change nothing; the
\* messages answered otherwise are the add-task phrase in the idle menu state
\* and the texts only the default handler takes
C25_CheckedHandlersReject ==
    [][NoUserEvent'
       => \/ /\ reply' = <<Msg("user_error")>>
             /\ UNCHANGED <<fsm_state, fsm_data>>
             /\ StoreUnchanged
          \/ \E c \in Users :
                \/ fsm_state[c] = "start_menu" /\ event'.text = TxtAddTask
                \/ NoHandlerFor(fsm_state[c], event'.text)]_vars


-----------------------------------------------------------------------------
(* Claims about button presses without a session (Spec) *)

\* No FSM state and an empty data bag: what the storage returns for a key that
\* expired, was cleared or was never written
SessionAbsent(u) == fsm_state[u] = "none" /\ fsm_data[u] = EmptyDict

\* The callback data of the buttons that belong to a running dialogue
MidDialogueActions ==
    {"end_tags", "search_tags", "search_query", "end_search", "next_page",
     "prev_page", "next_page_search", "prev_page_search", "end_task_list"}

\* A button of a running dialogue was pressed by u
MidDialogueAction(u) ==
    event.kind = "action" /\ event.user = u /\ event.data \in MidDialogueActions

\* C26: a button of a running dialogue pressed while the user's session is
\* absent starts no dialogue state, writes nothing to the store and leaves the
\* user outside every dialogue.
C26_AbsentSessionRejects ==
    [][\A u \in Users :
          (SessionAbsent(u) /\ MidDialogueAction(u)')
          => /\ fsm_state'[u] \in {"none", "start_menu"}
             /\ StoreUnchanged]_vars

\* The first event of a user without a session is the press of the tag-mode
\* button of an old search message: the user is in the tag input state
C26_SearchStartedWithoutSession ==
    /\ event = ActionEvent(1, "search_tags", 0)
    /\ fsm_state[1] = "waiting_for_tags"
    /\ fsm_data[1] = EmptyDict
    /\ reply = <<Msg("ask_search_tags")>>


-----------------------------------------------------------------------------
(* Claims about the failure paths of the dialogue steps (Spec) *)

\* The answers of the failure paths: end_tags_callback without a task name,
\* _complete_registration without the row read back, the ValueError of
\* search_tasks, and a search that finds nothing
FailureAnswers ==
    {"task_name_not_found", "registration_failed", "keywords_and_tags_both_empty",
     "nothing_found"}

\* C27: a dialogue step that takes a failure path leaves the user in the idle
\* menu state, never in an input state of a dialogue.
C27_FailureEndsIdle ==
    [][\A u \in Users :
          (event'.user = u /\ \E m \in FailureAnswers : Answered(m))
          => fsm_state'[u] \notin InputStates]_vars

\* The finish-tags button of an old message pressed while Add-Task waits for
\* the task name: the error is answered and the user still is in that state
C27_FailedStepKeepsInputState ==
    /\ event = ActionEvent(1, "end_tags", 0)
    /\ reply = <<Msg("task_name_not_found")>>
    /\ fsm_state[1] = "waiting_name"

\* The failure paths of the Search dialogue do end in the idle menu state with
\* an empty data bag
C27_SearchFailureEndsIdle ==
    [][\A u \in Users :
          (event'.user = u
              /\ (Answered("keywords_and_tags_both_empty") \/ Answered("nothing_found")))
          => fsm_state'[u] = "start_menu" /\ fsm_data'[u] = EmptyDict]_vars


\* C28: a handler that reads a session field that is absent (never written,
\* cleared or expired) handles the outcome: no message of a user ends in an
\* exception that leaves the handler.
C28_MissingFieldHandled ==
    [][\A u \in TempUsers :
          (event'.kind = "text" /\ event'.user = u)
          => calc' # Raised(u, "ValueError")]_vars

\* The name was stored, its key expired, and a valid phone number was sent in
\* awaiting_phone: the ValueError of get_user_temp_value_by_name left the
\* handler, which answered nothing and left the user in awaiting_phone
C28_NameExpiredBeforePhone ==
    /\ event = TextEvent(3, TxtPhone)
    /\ calc = Raised(3, "ValueError")
    /\ reply = <<>>
    /\ fsm_state[3] = "awaiting_phone"
    /\ ~(\E row \in users : row.id = 3)

\* What the methods themselves do: a get reports the missing key exactly when
\* no unexpired entry is stored under it, and the clear of a user leaves no
\* entry under any field of that user, the tag list included
C28_GetReportsMissingKey ==
    [][now' = now
       => /\ calc'.op = "get"
             => (calc'.raises
                    <=> ~(\E e \in temp : e.key = FullKey(calc'.user, calc'.key)))
          /\ calc'.op = "clear"
             => \A key \in {FieldName, FieldPhone, FieldTags} :
                    ~(\E e \in temp' : e.key = FullKey(calc'.user, key))]_vars


\* An entry with a running time-to-live that ends within TTL seconds from now
ExpiresWithinTTL(e) == e.volatile /\ now < e.expires_at /\ e.expires_at <= now + TTL

\* C29: every entry of the session store, the tag list included, has a running
\* time-to-live of at most TTL seconds, so that it is absent once TTL seconds
\* have passed without a write.
C29_EveryEntryExpires == \A e \in temp : ExpiresWithinTTL(e)

\* A tag list is still stored when the clock has reached its bound, and no
\* expiry time is attached to it
C29_TagListNeverExpires ==
    /\ now = MaxClock * ClockStep
    /\ \E e \in temp : e.key = FullKey(3, FieldTags) /\ ~e.volatile
    /\ ~(\E e \in temp : e.kind = "string")

\* The fields written by set_user_temp_value_by_name do expire
C29_StringEntriesExpire ==
    \A e \in temp : e.kind = "string" => ExpiresWithinTTL(e)


-----------------------------------------------------------------------------
(* Claims about the criteria of the search-result listing (SpecSearch) *)

\* An arrow of the search-result listing was pressed by u
SearchNavigation(u) ==
    ActionStep(u, "next_page_search") \/ ActionStep(u, "prev_page_search")

\* The criteria pair stored by the last end-search of u
Snapshot(u) == fsm_data[u].keywords_and_tags

\* C30: every next_page/prev_page event of the search-result listing filters
\* with the keyword/tag pair stored at end-search: it renders a page of the
\* tasks that pair finds and leaves the stored pair as it was, whatever has
\* been typed into the keyword and tag lists since.
C30_NavigationUsesSnapshot ==
    [][\A u \in Users :
          ("keywords_and_tags" \in DOMAIN fsm_data[u] /\ SearchNavigation(u))
          => LET found == SearchListing(u)
                 total_pages == get_total_pages_from_tasks_by_page_size(found, PAGE_SIZE)
             IN  IF found = <<>> THEN reply' = <<Msg("nothing_found")>>
                 ELSE /\ "keywords_and_tags" \in DOMAIN fsm_data'[u]
                      /\ Snapshot(u)' = Snapshot(u)
                      /\ \E to \in 0..(total_pages - 1) :
                            reply' = <<PageMsg(paginate_tasks(found, to, PAGE_SIZE), to,
                                               total_pages, TRUE,
                                               IF total_pages = 1 THEN <<>>
                                               ELSE SearchNav)>>]_vars

\* An arrow of a listing was pressed and the search behind it found nothing:
\* it ran with what had been typed since (every stored pair that rendered a
\* listing finds tasks, the store being the same)
C30_NavigationUsesScratch ==
    /\ event = ActionEvent(1, "next_page_search", 0)
    /\ reply = <<Msg("nothing_found")>>
    /\ fsm_data[1] = EmptyDict

\* Without text typed since the listing was rendered, the arrows do filter
\* with the stored pair and keep it
C30_UntouchedListingUsesSnapshot ==
    [][\A u \in Users :
          (SearchListingShown(u) /\ SearchNavigation(u))
          => LET found == SearchListing(u)
                 total_pages == get_total_pages_from_tasks_by_page_size(found, PAGE_SIZE)
             IN  /\ Snapshot(u)' = Snapshot(u)
                 /\ \E to \in 0..(total_pages - 1) :
                       reply' = <<PageMsg(paginate_tasks(found, to, PAGE_SIZE), to,
                                          total_pages, TRUE,
                                          IF total_pages = 1 THEN <<>>
                                          ELSE SearchNav)>>]_vars


-----------------------------------------------------------------------------
(* Claims about the input of the Search dialogue (SpecSearchInput) *)

\* The position of the first comma of t, or 0
FirstComma(t) ==
    IF HasComma(t) THEN CHOOSE i \in 1..Len(t) : t[i] = "," /\ \A j \in 1..(i - 1) : t[j] # ","
    ELSE 0

\* The pieces of t between its commas, from left to right, each without the
\* blanks around it
RECURSIVE CommaTokens(_)
CommaTokens(t) ==
    IF FirstComma(t) = 0 THEN <<Strip(t)>>
    ELSE <<Strip(SubSeq(t, 1, FirstComma(t) - 1))>>
            \o CommaTokens(SubSeq(t, FirstComma(t) + 1, Len(t)))

\* The keyword list and the tag list of the bag of u
KeywordList(u) == DictGet(fsm_data[u], "keywords", <<>>)
TagList(u) == DictGet(fsm_data[u], "tags", <<>>)

\* C31: a text message in waiting_for_query appends its comma-separated tokens,
\* in order, to the keyword list and leaves the tag list; a text message in
\* waiting_for_tags does the same to the tag list and leaves the keyword list;
\* the two mode buttons change neither list.
C31_TokensToTheirList ==
    [][\A u \in Users :
          /\ (event'.kind = "text" /\ event'.user = u /\ event'.text # <<>>
                /\ fsm_state[u] = "waiting_for_query" /\ ~IsStart(event'.text))
             => /\ KeywordList(u)' = KeywordList(u) \o CommaTokens(event'.text)
                /\ TagList(u)' = TagList(u)
          /\ (event'.kind = "text" /\ event'.user = u /\ event'.text # <<>>
                /\ fsm_state[u] = "waiting_for_tags" /\ ~IsStart(event'.text))
             => /\ TagList(u)' = TagList(u) \o CommaTokens(event'.text)
                /\ KeywordList(u)' = KeywordList(u)
          /\ (ActionStep(u, "search_tags") \/ ActionStep(u, "search_query"))
             => /\ KeywordList(u)' = KeywordList(u)
                /\ TagList(u)' = TagList(u)]_vars

\* "a, c" was typed as tags after the keyword "a", and the mode was switched
\* back: both lists are as typed
C31_Witness ==
    /\ event = ActionEvent(1, "search_query", 0)
    /\ fsm_state[1] = "waiting_for_query"
    /\ KeywordList(1) = <<TxtA>>
    /\ TagList(1) = <<TxtA, TxtC>>


\* C34: neither the keyword list nor the tag list of a session ever holds an
\* empty token.
C34_NoEmptyToken ==
    \A u \in Users :
        /\ \A i \in 1..Len(KeywordList(u)) : KeywordList(u)[i] # <<>>
        /\ \A i \in 1..Len(TagList(u)) : TagList(u)[i] # <<>>

\* A comma alone was typed as keywords and end-search pressed: the search ran
\* with two empty keywords and listed every task of the user, three pages
C34_CommaListsEveryTask ==
    /\ event = ActionEvent(1, "end_search", 0)
    /\ DictGet(fsm_data[1], "keywords_and_tags", <<>>) = << <<<<>>, <<>>>>, <<>> >>
    /\ Len(reply) = 2
    /\ reply[2] = PageMsg(<<1, 2, 3, 4, 5>>, 0, 3, FALSE, SearchNav)
    /\ Len(search_tasks(1, <<<<>>>>, <<>>)) = StartCount


-----------------------------------------------------------------------------
(* Claims about add_task calls that run side by side (SpecConcurrent) *)

\* No add_task call is running
NoCallRunning == \A u \in Callers : calc.calls[u].pc = "idle"

\* C32: when the add_task calls of two users that request the same new tag
\* name have run, however their steps interleaved, the tags table holds one
\* row of each name, and every task carries the row of each name requested
\* for it.
C32_ConcurrentTagsDeduplicated ==
    NoCallRunning
    => /\ \A i, j \in 1..Len(tags) : tags[i] = tags[j] => i = j
       /\ \A k \in 1..Len(tasks) :
             \A i \in 1..Len(tasks[k].tags) : tasks[k].tags[i] \in 1..Len(tags)

\* Both users asked for the new tag "a"; both calls read the tags table before
\* either committed: two rows named "a", one carried by each task
C32_TwoRowsOfOneName ==
    /\ NoCallRunning
    /\ tags = <<TxtA, TxtA>>
    /\ Len(tasks) = 2
    /\ tasks[1].user_id # tasks[2].user_id
    /\ tasks[1].tags # tasks[2].tags


-----------------------------------------------------------------------------
(* Claims about the tasks of other users (Spec) *)

\* C33: no mark-completed button press of a user, whatever task id its
\* callback data carries, changes the completion flag of a task that belongs
\* to another user.
C33_OtherUsersTasksUntouched ==
    [][\A u \in Users :
          (event'.kind = "action" /\ event'.data = "task_is_completed" /\ event'.user = u)
          => \A k \in 1..Len(tasks) :
                tasks[k].user_id # u => tasks'[k].is_completed = tasks[k].is_completed]_vars

\* User 1 pressed a button carrying the id of the other user's task: that task
\* is completed
C33_OtherUsersTaskCompleted ==
    /\ event = ActionEvent(1, "task_is_completed", StartCount + 1)
    /\ tasks[StartCount + 1].user_id = OtherUser
    /\ tasks[StartCount + 1].is_completed


-----------------------------------------------------------------------------
(* Claims about the separation of the dialogues (Spec) *)

\* The callback data of the buttons of the Search dialogue
SearchActions ==
    {"search_tags", "search_query", "end_search", "next_page_search",
     "prev_page_search"}

\* C35: while Add-Task waits for the task name or for tags, a button of the
\* Search dialogue changes neither the Add-Task state, nor the stored task
\* name, nor the stored tag list.
C35_SearchActionLeavesAddTask ==
    [][\A u \in Users :
          (fsm_state[u] \in {"waiting_name", "waiting_tags"}
              /\ event'.kind = "action" /\ event'.user = u
              /\ event'.data \in SearchActions)
          => /\ fsm_state'[u] = fsm_state[u]
             /\ StoredTaskName(u)' = StoredTaskName(u)
             /\ TagList(u)' = TagList(u)]_vars

\* The second part of the claim on its own: end-search pressed in waiting_tags
\* never stores the tags typed for the new task as the criteria of a search
\* (it does: the pair ([], tags of the task) is stored, the task name dropped)
C35_AddTaskTagsNeverSearched ==
    [][\A u \in Users :
          (fsm_state[u] = "waiting_tags" /\ TagList(u) # <<>>
              /\ ActionStep(u, "end_search"))
          => DictGet(fsm_data'[u], "keywords_and_tags", <<>>) # <<<<>>, TagList(u)>>]_vars


\* The page cursor of the open-task listing in the bag of u
ListingCursor(u) == DictGet(fsm_data[u], "page", 0)

\* C36: a step that renders a page of the search-result listing (end-search or
\* one of its arrows) leaves the page cursor of the open-task listing as it was.
C36_SearchKeepsListingCursor ==
    [][\A u \in Users :
          (event'.kind = "action" /\ event'.user = u
              /\ event'.data \in {"end_search", "next_page_search", "prev_page_search"}
              /\ Answered("tasks"))
          => ListingCursor(u)' = ListingCursor(u)]_vars

\* The open-task listing was requested from the menu after the search listing
\* had been paged forward: it opens on the second page, the index carried over
C36_ListingOpensOnSearchPage ==
    /\ event = TextEvent(1, TxtListTasks)
    /\ "page_search_list" \in DOMAIN fsm_data[1]
    /\ fsm_data[1].page_search_list = 1
    /\ Len(reply) = 1 /\ reply[1].msg = "tasks" /\ reply[1].page = 1


-----------------------------------------------------------------------------
(* Claims about a repeated finish-tags press (SpecAdd) *)

\* C37: a finish-tags press that directly follows a finish-tags press of the
\* same user finds no task name: it is refused and creates no Task row and no
\* Tag row, so the two presses together create one task at most.
C37_SecondFinishCreatesNothing ==
    [][\A u \in Users :
          (event = ActionEvent(u, "end_tags", 0) /\ ActionStep(u, "end_tags"))
          => /\ reply' = <<Msg("task_name_not_found")>>
             /\ tasks' = tasks
             /\ tags' = tags]_vars

\* The first press committed a task and left the bag with an empty tag list
\* only; the second press was refused in the idle menu state: one task added
C37_Witness ==
    /\ event = ActionEvent(1, "end_tags", 0)
    /\ reply = <<Msg("task_name_not_found")>>
    /\ fsm_state[1] = "start_menu"
    /\ fsm_data[1] = SetData("tags", <<>>)
    /\ Len(tasks) = StartCount + 1


-----------------------------------------------------------------------------
(* Claims about the states of unregistered users (SpecInput) *)

\* The idle menu state and the states of Add-Task and Search
MemberStates ==
    {"start_menu", "waiting_name", "waiting_tags", "waiting_for_query",
     "waiting_for_tags", "listing_tasks"}

\* C38: a user in the idle menu state or in a state of Add-Task or Search has
\* a User row.
C38_MemberStatesNeedUser ==
    \A u \in Newcomers : fsm_state[u] \in MemberStates => HasUserRecord(u)

\* The first event of an unregistered user is the press of the tag-mode button
\* of a search message: the user is in a Search state without a User row
C38_UnregisteredInSearch ==
    /\ event = ActionEvent(3, "search_tags", 0)
    /\ fsm_state[3] = "waiting_for_tags"
    /\ ~HasUserRecord(3)


-----------------------------------------------------------------------------
(* Claims about the arrows of the listings (SpecSearch, Spec) *)

\* The callback data whose handlers step the page forward, and backward
ForwardData == {"next_page", "next_page_search"}
BackwardData == {"prev_page", "prev_page_search"}

\* C39: in every rendered listing with arrows, the control labelled with the
\* back arrow carries the callback data of a previous-page handler and the
\* control labelled with the forward arrow carries the callback data of a
\* next-page handler.
C39_ArrowsMatchTransitions ==
    \A i \in 1..Len(reply) :
        reply[i].nav # <<>>
        => /\ reply[i].nav[1] \in BackwardData
           /\ reply[i].nav[2] \in ForwardData

\* The arrows of the open-task listing do match
C39_ListingArrowsMatch ==
    \A i \in 1..Len(reply) :
        (reply[i].nav # <<>> /\ event.data \notin SearchActions)
        => /\ reply[i].nav[1] = "prev_page"
           /\ reply[i].nav[2] = "next_page"

\* A search listing of two pages is on screen: its back arrow carries
\* next_page_search, its forward arrow prev_page_search
C39_SearchArrowsSwapped ==
    /\ event = ActionEvent(1, "end_search", 0)
    /\ Len(reply) = 2
    /\ reply[2].total = 2
    /\ reply[2].nav = <<"next_page_search", "prev_page_search">>


-----------------------------------------------------------------------------
(* Claims about the content of the open-task listing (SpecListing) *)

\* The step handles an event of u that renders the open-task listing: the menu
\* phrase in the idle menu state, an arrow of the listing, a mark-completed
\* button
OpenListingStep(u) ==
    /\ event'.user = u
    /\ \/ /\ event'.kind = "text" /\ event'.text = TxtListTasks
          /\ fsm_state[u] = "start_menu"
       \/ /\ event'.kind = "action"
          /\ event'.data \in {"next_page", "prev_page", "task_is_completed"}

\* The ids of the tasks of u that are not completed after the step
OpenIdsAfter(u) ==
    {tasks'[k].id : k \in {j \in 1..Len(tasks') :
                             tasks'[j].user_id = u /\ ~tasks'[j].is_completed}}

\* C40: every page of the open-task listing shows only tasks of the requesting
\* user that are not completed in the store as the step leaves it; with no
\* such task the user is told there are no tasks and no page is rendered.
C40_ListingShowsOpenTasks ==
    [][\A u \in Users :
          OpenListingStep(u)
          => IF OpenIdsAfter(u) = {}
             THEN Answered("no_tasks") /\ ~Answered("tasks")
             ELSE /\ Answered("tasks")
                  /\ \A i \in 1..Len(reply') :
                        reply'[i].msg = "tasks"
                        => Range(reply'[i].items) \subseteq OpenIdsAfter(u)]_vars

\* Of six tasks the first was marked completed: the page rendered by that
\* step starts with the second task and shows the sixth
C40_Witness ==
    /\ event = ActionEvent(1, "task_is_completed", 1)
    /\ tasks[1].is_completed
    /\ Len(reply) = 2
    /\ reply[2].msg = "tasks"
    /\ reply[2].items = <<2, 3, 4, 5, 6>>

\* The only task was marked completed: the user is told there are no tasks
C40_NoTasksWitness ==
    /\ event = ActionEvent(1, "task_is_completed", 1)
    /\ Len(tasks) = 2 /\ tasks[1].is_completed
    /\ reply = <<Msg("task_marked_completed"), Msg("no_tasks")>>

====
